---- MODULE Spec2Model ----
(***************************************************************************)
(* gocommerce: the auth service (credential store, bcrypt, HS256 session   *)
(* tokens), the user service (profiles, addresses) and the API gateway     *)
(* (request gate, resource authorizer, HTTP handlers) as one state machine.*)
(*                                                                         *)
(* Strings are the program's strings.  A nil error is the empty string.    *)
(* Time is counted in ticks of 1/TicksPerSecond second, so that the        *)
(* truncation of time.Time to Unix seconds is visible.                     *)
(***************************************************************************)
EXTENDS Integers, Sequences, FiniteSets, TLC

VARIABLES
    accounts,    \* auth-service table users: rows [id, email, password, name]
    profiles,    \* user-service table users: rows [id, email, name, phone, deleted]
    addresses,   \* user-service table addresses
    jwtSecret,   \* AuthService.jwtSecret of the running auth-service process
    now,         \* wall clock, in ticks
    clockSteps,  \* number of clock advances so far (bounds the exploration)
    minted,      \* tokens returned by successful logins, held by clients:
                 \* [token, account (whose credentials were presented), secret]
    registered,  \* what successful Register calls returned: [id, email, password]
    last,        \* the most recent call and what it answered
    inflight,    \* Register RPCs in progress, per concurrent caller: where the
                 \* handler stands and what it has returned
    conns        \* the gateway's gRPC connections: the process's phase, the client
                 \* set it holds, the connections open and the ones it closed

vars == <<accounts, profiles, addresses, jwtSecret, conns, now, clockSteps, minted, registered, last, inflight>>

----------------------------------------------------------------------------
(* Bounds of the exploration *)

MaxTokens == 1
MaxSessionTokens == 2
MaxClockSteps == 2
MaxAddresses == 1
MaxCallers == 2
MaxUserAddresses == 2
TicksPerSecond == 2

(* Program constants *)

TokenTTL == 86400          \* 24 * time.Hour, in seconds
BcryptMaxBytes == 72       \* golang.org/x/crypto v0.26.0: ErrPasswordTooLong
BcryptDefaultCost == 10    \* bcrypt.DefaultCost

----------------------------------------------------------------------------
(* Input alphabets *)

LongPassword == "0123456789012345678901234567890123456789012345678901234567890123456789012"

\* JWT_SECRET: the fallback compiled into main, and a configured one
DefaultSecret == "23094uoifhpowisrfhp02893ryufpowafh"
Secrets == {DefaultSecret, "c2VjcmV0"}
AttackerSecret == "evil"

\* (email, password, name) triples presented to the Register RPC
RegisterInputs ==
    { <<"a@x", "pw1", "Al">>,
      <<"a@x", "pw2", "Bo">>,
      <<"b@x", "pw1", "Bea">>,
      <<"b@x", LongPassword, "Bea">> }

LoginEmails == {"a@x", "b@x", "c@x"}
LoginPasswords == {"pw1", "pw2"}

----------------------------------------------------------------------------
(* Library primitives used by the auth service *)

\* uuid.New().String(): a fresh identifier; ns names the table it is drawn for,
\* n is the number of rows the table holds
UUID(ns, n) == ns \o ToString(n + 1)

\* faulty variant: the password handed on as it is
GenerateFromPasswordMutPlain(password, salt) ==
    IF Len(password) > BcryptMaxBytes
    THEN [hash |-> <<>>, err |-> "bcrypt: password length exceeds 72 bytes"]
    ELSE [hash |-> password, err |-> ""]

\* bcrypt.GenerateFromPassword(password, DefaultCost): a salted one-way hash,
\* an error for a password of more than 72 bytes
GenerateFromPassword(password, salt) ==
    IF Len(password) > BcryptMaxBytes
    THEN [hash |-> <<>>, err |-> "bcrypt: password length exceeds 72 bytes"]
    ELSE [hash |-> <<"$2a$", BcryptDefaultCost, salt, password>>, err |-> ""]

\* bcrypt.CompareHashAndPassword(hash, password): nil iff hashing the password
\* with the salt and cost embedded in the hash gives the hash
CompareHashAndPassword(hash, password) ==
    IF Len(hash) = 4 /\ hash = <<"$2a$", hash[2], hash[3], password>>
    THEN ""
    ELSE "crypto/bcrypt: hashedPassword is not the hash of the given password"

\* time.Time.Unix(): whole seconds
Unix(t) == t \div TicksPerSecond

\* a uid claim as decoded from JSON: a string, a number, or no claim at all
StrClaim(s) == [t |-> "string", v |-> s]
NumClaim == [t |-> "number", v |-> "7"]
NoClaim == [t |-> "absent", v |-> ""]

\* HMAC-SHA256 of the signing string (header and claims) under key
HMACSign(key, alg, claims) == <<"hmac", key, alg, claims>>

\* jwt.NewWithClaims(SigningMethodHS256, claims).SignedString(key)
SignedString(claims, key) ==
    [form |-> "jwt", alg |-> "HS256", claims |-> claims, sig |-> HMACSign(key, "HS256", claims)]

\* a string that is not three dot-separated base64 segments
MalformedToken == [form |-> "garbage", alg |-> "", claims |-> [user_id |-> NoClaim, exp |-> 0], sig |-> <<>>]

\* the signing methods a []byte key verifies: the keyfunc returns the secret
\* for whatever method the token's header names
HMACAlgs == {"HS256", "HS384", "HS512"}

\* jwt.Parse(tokenString, keyfunc) of golang-jwt v5: structure, signing method,
\* signature, then the registered claims (exp: valid iff now is before exp)
\* faulty variant: jwt.Parse without the signature check
JwtParseMutNoSig(token, key, t) ==
    IF token.form # "jwt" THEN "token is malformed"
    ELSE IF token.alg = "none" THEN "token is unverifiable: 'none' signature type is not allowed"
    ELSE IF token.alg \notin HMACAlgs THEN "token signature is invalid: key is of invalid type"
    ELSE IF ~(t < token.claims.exp * TicksPerSecond) THEN "token has invalid claims: token is expired"
    ELSE ""

\* faulty variant: jwt.Parse accepting a token at the instant of its exp
JwtParseMutInclusiveExp(token, key, t) ==
    IF token.form # "jwt" THEN "token is malformed"
    ELSE IF token.alg = "none" THEN "token is unverifiable: 'none' signature type is not allowed"
    ELSE IF token.alg \notin HMACAlgs THEN "token signature is invalid: key is of invalid type"
    ELSE IF token.sig # HMACSign(key, token.alg, token.claims) THEN "token signature is invalid"
    ELSE IF ~(t <= token.claims.exp * TicksPerSecond) THEN "token has invalid claims: token is expired"
    ELSE ""

JwtParse(token, key, t) ==
    IF token.form # "jwt" THEN "token is malformed"
    ELSE IF token.alg = "none" THEN "token is unverifiable: 'none' signature type is not allowed"
    ELSE IF token.alg \notin HMACAlgs THEN "token signature is invalid: key is of invalid type"
    ELSE IF token.sig # HMACSign(key, token.alg, token.claims) THEN "token signature is invalid"
    ELSE IF ~(t < token.claims.exp * TicksPerSecond) THEN "token has invalid claims: token is expired"
    ELSE ""

----------------------------------------------------------------------------
(* auth-service repository (PostgreSQL table users: id PRIMARY KEY,        *)
(* email UNIQUE)                                                           *)

\* the zero time.Time, which models.User.LastLogin holds when it is not set
ZeroTime == <<>>

DbError == "pq: database error"

\* the rows with this email: none or one
GetUserByEmail(email) == {a \in accounts : a.email = email}

\* faulty variant: a users table without the UNIQUE constraint on email
RepoCreateUserMutNoUnique(user) ==
    LET row == [id |-> UUID("u", Cardinality(accounts)), email |-> user.email,
                password |-> user.password, name |-> user.name, last_login |-> user.last_login]
    IN [id |-> row.id, err |-> "", accounts |-> accounts \cup {row}]

\* INSERT of a row with a fresh id; the unique index rejects a second row per email
RepoCreateUser(user) ==
    LET row == [id |-> UUID("u", Cardinality(accounts)), email |-> user.email,
                password |-> user.password, name |-> user.name, last_login |-> user.last_login]
    IN IF \E a \in accounts : a.email = user.email
       THEN [id |-> row.id, err |-> "pq: duplicate key value violates unique constraint", accounts |-> accounts]
       ELSE [id |-> row.id, err |-> "", accounts |-> accounts \cup {row}]

----------------------------------------------------------------------------
(* AuthService *)

\* faulty variant: Register without the lookup of the email, replacing the row
RegisterMutOverwrite(email, password, name, fault) ==
    LET h == GenerateFromPassword(password, Cardinality(accounts))
        row == [id |-> UUID("u", Cardinality(accounts)), email |-> email, password |-> h.hash, name |-> name,
                last_login |-> ZeroTime]
    IN IF fault = "select" THEN [userID |-> "", err |-> DbError, accounts |-> accounts]
       ELSE IF h.err # "" THEN [userID |-> "", err |-> h.err, accounts |-> accounts]
       ELSE IF fault = "insert" THEN [userID |-> "", err |-> DbError, accounts |-> accounts]
       ELSE [userID |-> row.id, err |-> "",
             accounts |-> {a \in accounts : a.email # email} \cup {row}]

\* AuthService.Register: [userID, err] and the table after the call
Register(email, password, name, fault) ==
    LET existingUser == GetUserByEmail(email)
        h == GenerateFromPassword(password, Cardinality(accounts))
        ins == RepoCreateUser([email |-> email, password |-> h.hash, name |-> name, last_login |-> ZeroTime])
    IN IF fault = "select" THEN [userID |-> "", err |-> DbError, accounts |-> accounts]
       ELSE IF existingUser # {} THEN [userID |-> "", err |-> "email already registered", accounts |-> accounts]
       ELSE IF h.err # "" THEN [userID |-> "", err |-> h.err, accounts |-> accounts]
       ELSE IF fault = "insert" THEN [userID |-> "", err |-> DbError, accounts |-> accounts]
       ELSE IF ins.err # "" THEN [userID |-> "", err |-> ins.err, accounts |-> accounts]
       ELSE [userID |-> ins.id, err |-> "", accounts |-> ins.accounts]

NoToken == MalformedToken

\* faulty variant: Login signing the email as user_id
LoginMutEmailSubject(email, password, fault) ==
    LET found == GetUserByEmail(email)
    IN IF fault = "select" \/ found = {} THEN [token |-> NoToken, err |-> "invalid credentials", accounts |-> accounts]
       ELSE LET user == CHOOSE a \in found : TRUE
            IN IF CompareHashAndPassword(user.password, password) # ""
               THEN [token |-> NoToken, err |-> "invalid credentials", accounts |-> accounts]
               ELSE [token |-> SignedString([user_id |-> StrClaim(user.email),
                                             exp |-> Unix(now + TokenTTL * TicksPerSecond)], jwtSecret),
                     err |-> "", accounts |-> accounts]

\* faulty variant: Login with a lifetime of one hour
LoginMutHourTTL(email, password, fault) ==
    LET found == GetUserByEmail(email)
    IN IF fault = "select" \/ found = {} THEN [token |-> NoToken, err |-> "invalid credentials", accounts |-> accounts]
       ELSE LET user == CHOOSE a \in found : TRUE
            IN IF CompareHashAndPassword(user.password, password) # ""
               THEN [token |-> NoToken, err |-> "invalid credentials", accounts |-> accounts]
               ELSE [token |-> SignedString([user_id |-> StrClaim(user.id),
                                             exp |-> Unix(now + 3600 * TicksPerSecond)], jwtSecret),
                     err |-> "", accounts |-> accounts]

\* faulty variant: Login telling an unknown email from a wrong password
LoginMutDistinctMessages(email, password, fault) ==
    LET found == GetUserByEmail(email)
    IN IF fault = "select" \/ found = {} THEN [token |-> NoToken, err |-> "user not found", accounts |-> accounts]
       ELSE LET user == CHOOSE a \in found : TRUE
            IN IF CompareHashAndPassword(user.password, password) # ""
               THEN [token |-> NoToken, err |-> "invalid password", accounts |-> accounts]
               ELSE [token |-> SignedString([user_id |-> StrClaim(user.id),
                                             exp |-> Unix(now + TokenTTL * TicksPerSecond)], jwtSecret),
                     err |-> "", accounts |-> accounts]

\* faulty variant: a Login that records the time of the login in the Account
LoginMutTouchLastLogin(email, password, fault) ==
    LET found == GetUserByEmail(email)
    IN IF fault = "select" \/ found = {}
       THEN [token |-> NoToken, err |-> "invalid credentials", accounts |-> accounts]
       ELSE LET user == CHOOSE a \in found : TRUE
            IN IF CompareHashAndPassword(user.password, password) # ""
               THEN [token |-> NoToken, err |-> "invalid credentials", accounts |-> accounts]
               ELSE [token |-> SignedString([user_id |-> StrClaim(user.id),
                                             exp |-> Unix(now + TokenTTL * TicksPerSecond)], jwtSecret),
                     err |-> "",
                     accounts |-> (accounts \ {user}) \cup {[user EXCEPT !.last_login = <<now>>]}]

\* AuthService.Login: [token, err]
Login(email, password, fault) ==
    LET found == GetUserByEmail(email)
    IN IF fault = "select" \/ found = {} THEN [token |-> NoToken, err |-> "invalid credentials", accounts |-> accounts]
       ELSE LET user == CHOOSE a \in found : TRUE
            IN IF CompareHashAndPassword(user.password, password) # ""
               THEN [token |-> NoToken, err |-> "invalid credentials", accounts |-> accounts]
               ELSE [token |-> SignedString([user_id |-> StrClaim(user.id),
                                             exp |-> Unix(now + TokenTTL * TicksPerSecond)], jwtSecret),
                     err |-> "", accounts |-> accounts]

\* faulty variant: ValidateToken under the compiled-in fallback secret
ValidateTokenMutDefaultSecret(token) ==
    LET err == JwtParse(token, DefaultSecret, now)
    IN IF err # "" THEN [userID |-> "", err |-> err]
       ELSE IF token.claims.user_id.t # "string" THEN [userID |-> "", err |-> "Invalid token claims"]
       ELSE [userID |-> token.claims.user_id.v, err |-> ""]

\* faulty variant: ValidateToken refusing the token of a soft-deleted Profile
ValidateTokenMutCheckProfile(token) ==
    LET err == JwtParse(token, jwtSecret, now)
    IN IF err # "" THEN [userID |-> "", err |-> err]
       ELSE IF token.claims.user_id.t # "string" THEN [userID |-> "", err |-> "Invalid token claims"]
       ELSE IF \E p \in profiles : p.id = token.claims.user_id.v /\ p.deleted
       THEN [userID |-> "", err |-> "Invalid token"]
       ELSE [userID |-> token.claims.user_id.v, err |-> ""]

\* AuthService.ValidateToken: [userID, err]
ValidateToken(token) ==
    LET err == JwtParse(token, jwtSecret, now)
    IN IF err # "" THEN [userID |-> "", err |-> err]
       ELSE IF token.claims.user_id.t # "string" THEN [userID |-> "", err |-> "Invalid token claims"]
       ELSE [userID |-> token.claims.user_id.v, err |-> ""]

----------------------------------------------------------------------------
(* user-service repository (PostgreSQL tables users: id PRIMARY KEY, email *)
(* UNIQUE, deleted_at; addresses: user_id REFERENCES users(id))            *)

\* INSERT INTO users: a fresh id when none is given
UserRepoCreateUser(user) ==
    LET id == IF user.id = "" THEN UUID("p", Cardinality(profiles)) ELSE user.id
        row == [id |-> id, email |-> user.email, name |-> user.name,
                phone |-> user.phone, deleted |-> FALSE]
    IN IF \E p \in profiles : p.id = id \/ p.email = user.email
       THEN [user |-> row, err |-> "pq: duplicate key value violates unique constraint", profiles |-> profiles]
       ELSE [user |-> row, err |-> "", profiles |-> profiles \cup {row}]

\* faulty variant: the SELECT without "AND deleted_at IS NULL"
UserRepoGetUserByIDMutDeleted(userID) == {p \in profiles : p.id = userID}

\* SELECT ... WHERE id = $1 AND deleted_at IS NULL: none or one row
UserRepoGetUserByID(userID) == {p \in profiles : p.id = userID /\ ~p.deleted}

\* faulty variant: the UPDATE without its WHERE clause
UserRepoUpdateUserMutAllRows(user) ==
    {[p EXCEPT !.name = user.name, !.phone = user.phone] : p \in profiles}

\* UPDATE users SET name, phone, updated_at WHERE id = $4
UserRepoUpdateUser(user) ==
    {IF p.id = user.id THEN [p EXCEPT !.name = user.name, !.phone = user.phone] ELSE p : p \in profiles}

\* UPDATE users SET deleted_at = now WHERE id = $2
UserRepoDeleteUser(userID) ==
    {IF p.id = userID THEN [p EXCEPT !.deleted = TRUE] ELSE p : p \in profiles}

\* faulty variant: the INSERT into a table without the foreign key
UserRepoAddAddressMutNoForeignKey(address) ==
    LET row == [address EXCEPT !.id = UUID("addr", Cardinality(addresses))]
    IN [address |-> row, err |-> "", addresses |-> addresses \cup {row}]

\* INSERT INTO addresses: a fresh id; the foreign key needs a users row
UserRepoAddAddress(address) ==
    LET row == [address EXCEPT !.id = UUID("addr", Cardinality(addresses))]
    IN IF ~\E p \in profiles : p.id = address.user_id
       THEN [address |-> row, err |-> "pq: insert or update on table addresses violates foreign key constraint",
             addresses |-> addresses]
       ELSE [address |-> row, err |-> "", addresses |-> addresses \cup {row}]

\* faulty variant: the SELECT of the addresses without its WHERE clause
GetAddressesByUserIDMutAll(userID) == addresses

\* SELECT ... FROM addresses WHERE user_id = $1
GetAddressesByUserID(userID) == {a \in addresses : a.user_id = userID}

----------------------------------------------------------------------------
(* UserService and its gRPC handler: every answer is [.., Error], the RPC  *)
(* error is always nil; fault "db" makes the repository call fail          *)

NoUser == [id |-> "", email |-> "", name |-> "", phone |-> "", deleted |-> FALSE]

\* UserService.CreateUser behind UserHandler.CreateUser
CreateUser(userID, email, name, phone, fault) ==
    LET ins == UserRepoCreateUser([id |-> userID, email |-> email, name |-> name, phone |-> phone])
    IN IF email = "" THEN [User |-> NoUser, Error |-> "email is required", profiles |-> profiles]
       ELSE IF name = "" THEN [User |-> NoUser, Error |-> "name is required", profiles |-> profiles]
       ELSE IF fault = "db" THEN [User |-> NoUser, Error |-> DbError, profiles |-> profiles]
       ELSE IF ins.err # "" THEN [User |-> NoUser, Error |-> ins.err, profiles |-> profiles]
       ELSE [User |-> ins.user, Error |-> "", profiles |-> ins.profiles]

\* UserService.GetUser behind UserHandler.GetUser
GetUser(userID, fault) ==
    LET found == UserRepoGetUserByID(userID)
    IN IF userID = "" THEN [User |-> NoUser, Error |-> "user ID is required"]
       ELSE IF fault = "db" THEN [User |-> NoUser, Error |-> DbError]
       ELSE IF found = {} THEN [User |-> NoUser, Error |-> "user not found"]
       ELSE [User |-> CHOOSE p \in found : TRUE, Error |-> ""]

\* UserService.UpdateUser behind UserHandler.UpdateUser
UpdateUser(userID, name, phone, fault) ==
    LET found == UserRepoGetUserByID(userID)
    IN IF userID = "" THEN [User |-> NoUser, Error |-> "user ID is required", profiles |-> profiles]
       ELSE IF fault = "db" THEN [User |-> NoUser, Error |-> DbError, profiles |-> profiles]
       ELSE IF found = {} THEN [User |-> NoUser, Error |-> "user not found", profiles |-> profiles]
       ELSE LET user == [(CHOOSE p \in found : TRUE) EXCEPT !.name = name, !.phone = phone]
            IN [User |-> user, Error |-> "", profiles |-> UserRepoUpdateUser(user)]

\* faulty variant: a DeleteUser that looks for the live Profile first
DeleteUserMutNotFound(userID, fault) ==
    IF userID = "" THEN [IsDeleted |-> FALSE, Error |-> "user ID is required", profiles |-> profiles]
    ELSE IF fault = "db" THEN [IsDeleted |-> FALSE, Error |-> DbError, profiles |-> profiles]
    ELSE IF UserRepoGetUserByID(userID) = {}
    THEN [IsDeleted |-> FALSE, Error |-> "user not found", profiles |-> profiles]
    ELSE [IsDeleted |-> TRUE, Error |-> "", profiles |-> UserRepoDeleteUser(userID)]

\* UserService.DeleteUser behind UserHandler.DeleteUser
DeleteUser(userID, fault) ==
    IF userID = "" THEN [IsDeleted |-> FALSE, Error |-> "user ID is required", profiles |-> profiles]
    ELSE IF fault = "db" THEN [IsDeleted |-> FALSE, Error |-> DbError, profiles |-> profiles]
    ELSE [IsDeleted |-> TRUE, Error |-> "", profiles |-> UserRepoDeleteUser(userID)]

NoAddress == [id |-> "", user_id |-> "", street |-> "", city |-> "", state |-> "",
              postal_code |-> "", country |-> "", is_default |-> FALSE]

\* UserService.AddAddress behind UserHandler.AddAddress
AddAddress(userID, a, fault) ==
    LET ins == UserRepoAddAddress([a EXCEPT !.id = "", !.user_id = userID])
    IN IF userID = "" THEN [Address |-> NoAddress, Error |-> "user ID is required", addresses |-> addresses]
       ELSE IF a.street = "" \/ a.city = "" \/ a.postal_code = "" \/ a.country = ""
       THEN [Address |-> NoAddress, Error |-> "street, city, postal code, and country are required",
             addresses |-> addresses]
       ELSE IF fault = "db" THEN [Address |-> NoAddress, Error |-> DbError, addresses |-> addresses]
       ELSE IF ins.err # "" THEN [Address |-> NoAddress, Error |-> ins.err, addresses |-> addresses]
       ELSE [Address |-> ins.address, Error |-> "", addresses |-> ins.addresses]

\* UserService.GetAddresses behind UserHandler.GetAddresses
GetAddresses(userID, fault) ==
    IF userID = "" THEN [Addresses |-> {}, Error |-> "user ID is required"]
    ELSE IF fault = "db" THEN [Addresses |-> {}, Error |-> DbError]
    ELSE [Addresses |-> GetAddressesByUserID(userID), Error |-> ""]

----------------------------------------------------------------------------
(* auth-service gRPC handlers *)

\* what a gRPC client reads from a handler's returned error
RpcError(msg) == "rpc error: code = Unknown desc = " \o msg
Unavailable == "rpc error: code = Unavailable desc = connection refused"

\* faulty variant: the outcome of the mirror call is not looked at
AuthHandlerRegisterMutIgnoreMirror(email, password, name, fault, mirrorFault) ==
    LET r == Register(email, password, name, fault)
        call == [UserId |-> r.userID, Email |-> email, Name |-> name, Phone |-> ""]
        c == CreateUser(call.UserId, call.Email, call.Name, call.Phone, mirrorFault)
    IN IF r.err # ""
       THEN [UserId |-> "", Message |-> "", err |-> r.err, mirror |-> <<>>,
             accounts |-> r.accounts, profiles |-> profiles]
       ELSE [UserId |-> r.userID, Message |-> "User registered successfully", err |-> "",
             mirror |-> <<call>>, accounts |-> r.accounts,
             profiles |-> IF mirrorFault = "rpc" THEN profiles ELSE c.profiles]

\* faulty variant: the mirror call is sent without the Account's id
AuthHandlerRegisterMutNoId(email, password, name, fault, mirrorFault) ==
    LET r == Register(email, password, name, fault)
        call == [UserId |-> "", Email |-> email, Name |-> name, Phone |-> ""]
        c == CreateUser(call.UserId, call.Email, call.Name, call.Phone, mirrorFault)
    IN IF r.err # ""
       THEN [UserId |-> "", Message |-> "", err |-> r.err, mirror |-> <<>>,
             accounts |-> r.accounts, profiles |-> profiles]
       ELSE IF mirrorFault = "rpc"
       THEN [UserId |-> "", Message |-> "", err |-> Unavailable, mirror |-> <<call>>,
             accounts |-> r.accounts, profiles |-> profiles]
       ELSE IF c.Error # ""
       THEN [UserId |-> "", Message |-> "", err |-> c.Error, mirror |-> <<call>>,
             accounts |-> r.accounts, profiles |-> c.profiles]
       ELSE [UserId |-> r.userID, Message |-> "User registered successfully", err |-> "",
             mirror |-> <<call>>, accounts |-> r.accounts, profiles |-> c.profiles]

\* AuthHandler.Register: AuthService.Register, then the mirror CreateUser call.
\* mirrorFault: "none", "rpc" (the user service is unreachable) or "db"
AuthHandlerRegister(email, password, name, fault, mirrorFault) ==
    LET r == Register(email, password, name, fault)
        call == [UserId |-> r.userID, Email |-> email, Name |-> name, Phone |-> ""]
        c == CreateUser(call.UserId, call.Email, call.Name, call.Phone, mirrorFault)
    IN IF r.err # ""
       THEN [UserId |-> "", Message |-> "", err |-> r.err, mirror |-> <<>>,
             accounts |-> r.accounts, profiles |-> profiles]
       ELSE IF mirrorFault = "rpc"
       THEN [UserId |-> "", Message |-> "", err |-> Unavailable, mirror |-> <<call>>,
             accounts |-> r.accounts, profiles |-> profiles]
       ELSE IF c.Error # ""
       THEN [UserId |-> "", Message |-> "", err |-> c.Error, mirror |-> <<call>>,
             accounts |-> r.accounts, profiles |-> c.profiles]
       ELSE [UserId |-> r.userID, Message |-> "User registered successfully", err |-> "",
             mirror |-> <<call>>, accounts |-> r.accounts, profiles |-> c.profiles]

\* AuthHandler.Login
AuthHandlerLogin(email, password, fault) ==
    LET r == Login(email, password, fault)
    IN IF r.err # "" THEN [Token |-> NoToken, UserId |-> "", Name |-> "", err |-> r.err, accounts |-> r.accounts]
       ELSE [Token |-> r.token, UserId |-> "", Name |-> "", err |-> "", accounts |-> r.accounts]

\* faulty variant: a handler that returns the verification error as RPC error
AuthHandlerValidateTokenMutRpcError(token) ==
    LET r == ValidateToken(token)
    IN IF r.err # "" THEN [Valid |-> FALSE, UserId |-> "", Error |-> "", err |-> r.err]
       ELSE [Valid |-> TRUE, UserId |-> r.userID, Error |-> "", err |-> ""]

\* AuthHandler.ValidateToken: [Valid, UserId, Error] of the response and the
\* RPC error err, which is always nil
AuthHandlerValidateToken(token) ==
    LET r == ValidateToken(token)
    IN IF r.err # "" THEN [Valid |-> FALSE, UserId |-> "", Error |-> r.err, err |-> ""]
       ELSE [Valid |-> TRUE, UserId |-> r.userID, Error |-> "", err |-> ""]

----------------------------------------------------------------------------
(* Header values and token strings: sequences of lexemes, a lexeme being a *)
(* word, one space, or the compact serialization of a token                *)

Word(w) == [k |-> "word", w |-> w, tok |-> MalformedToken]
SP == [k |-> "space", w |-> " ", tok |-> MalformedToken]
Tok(t) == [k |-> "token", w |-> "", tok |-> t]

bearerPrefix == <<Word("Bearer"), SP>>

\* strings.HasPrefix
HasPrefix(s, prefix) == Len(s) >= Len(prefix) /\ SubSeq(s, 1, Len(prefix)) = prefix

\* strings.TrimPrefix
TrimPrefix(s, prefix) == IF HasPrefix(s, prefix) THEN SubSeq(s, Len(prefix) + 1, Len(s)) ELSE s

\* strings.TrimSpace
RECURSIVE TrimSpace(_)
TrimSpace(s) ==
    IF s = <<>> THEN s
    ELSE IF s[1] = SP THEN TrimSpace(Tail(s))
    ELSE IF s[Len(s)] = SP THEN TrimSpace(SubSeq(s, 1, Len(s) - 1))
    ELSE s

\* the token a token string decodes to (jwt.Parse's first step): one
\* serialized token, anything else is malformed
DecodeTokenString(s) == IF Len(s) = 1 /\ s[1].k = "token" THEN s[1].tok ELSE MalformedToken

----------------------------------------------------------------------------
(* api-gateway: request gate *)

EmptyContext == {}
\* context.WithValue(ctx, userIDKey, v)
WithValue(ctx, v) == {kv \in ctx : kv[1] # "user_id"} \cup {<<"user_id", v>>}

\* middleware.GetUserID
GetUserID(ctx) ==
    IF \E kv \in ctx : kv[1] = "user_id"
    THEN (CHOOSE kv \in ctx : kv[1] = "user_id")[2]
    ELSE ""

\* faulty variant: AuthMiddleware calling the handler whatever the verifier said
AuthMiddlewareMutPassInvalid(authHeader, vtFault) ==
    LET token == TrimSpace(TrimPrefix(authHeader, bearerPrefix))
        resp == AuthHandlerValidateToken(DecodeTokenString(token))
    IN [status |-> 0, body |-> "", next |-> TRUE, ctx |-> WithValue(EmptyContext, resp.UserId),
        vt |-> <<[Token |-> token, err |-> "", resp |-> resp]>>]

\* faulty variant: AuthMiddleware answering 401 when the verifier is unreachable
AuthMiddlewareMutConflate(authHeader, vtFault) ==
    LET token == TrimSpace(TrimPrefix(authHeader, bearerPrefix))
        resp == AuthHandlerValidateToken(DecodeTokenString(token))
        NoResp == [Valid |-> FALSE, UserId |-> "", Error |-> "", err |-> ""]
    IN IF authHeader = <<>>
       THEN [status |-> 401, body |-> "Authorization header required", next |-> FALSE,
             ctx |-> EmptyContext, vt |-> <<>>]
       ELSE IF ~HasPrefix(authHeader, bearerPrefix)
       THEN [status |-> 401, body |-> "Authorization header must start with 'Bearer '", next |-> FALSE,
             ctx |-> EmptyContext, vt |-> <<>>]
       ELSE IF token = <<>>
       THEN [status |-> 401, body |-> "Token cannot be empty", next |-> FALSE,
             ctx |-> EmptyContext, vt |-> <<>>]
       ELSE IF vtFault \/ ~resp.Valid
       THEN [status |-> 401, body |-> "Invalid token: " \o resp.Error, next |-> FALSE, ctx |-> EmptyContext,
             vt |-> <<[Token |-> token, err |-> IF vtFault THEN Unavailable ELSE "",
                       resp |-> IF vtFault THEN NoResp ELSE resp]>>]
       ELSE [status |-> 0, body |-> "", next |-> TRUE, ctx |-> WithValue(EmptyContext, resp.UserId),
             vt |-> <<[Token |-> token, err |-> "", resp |-> resp]>>]

\* faulty variant: AuthMiddleware without the checks of the header's form, the
\* verifier being called for every request
AuthMiddlewareMutNoReturn(authHeader, vtFault) ==
    LET token == TrimSpace(TrimPrefix(authHeader, bearerPrefix))
        resp == AuthHandlerValidateToken(DecodeTokenString(token))
    IN IF authHeader = <<>>
       THEN [status |-> 401, body |-> "Authorization header required", next |-> FALSE,
             ctx |-> EmptyContext, vt |-> <<[Token |-> token, err |-> "", resp |-> resp]>>]
       ELSE IF resp.Valid
       THEN [status |-> 0, body |-> "", next |-> TRUE, ctx |-> WithValue(EmptyContext, resp.UserId),
             vt |-> <<[Token |-> token, err |-> "", resp |-> resp]>>]
       ELSE [status |-> 401, body |-> "Invalid token: " \o resp.Error, next |-> FALSE,
             ctx |-> EmptyContext, vt |-> <<[Token |-> token, err |-> "", resp |-> resp]>>]

\* AuthMiddleware: [status, body] written by the gate (status 0: none), whether
\* next.ServeHTTP ran and with which context, and the ValidateToken calls made
AuthMiddleware(authHeader, vtFault) ==
    LET token == TrimSpace(TrimPrefix(authHeader, bearerPrefix))
        resp == AuthHandlerValidateToken(DecodeTokenString(token))
        NoResp == [Valid |-> FALSE, UserId |-> "", Error |-> "", err |-> ""]
    IN IF authHeader = <<>>
       THEN [status |-> 401, body |-> "Authorization header required", next |-> FALSE,
             ctx |-> EmptyContext, vt |-> <<>>]
       ELSE IF ~HasPrefix(authHeader, bearerPrefix)
       THEN [status |-> 401, body |-> "Authorization header must start with 'Bearer '", next |-> FALSE,
             ctx |-> EmptyContext, vt |-> <<>>]
       ELSE IF token = <<>>
       THEN [status |-> 401, body |-> "Token cannot be empty", next |-> FALSE,
             ctx |-> EmptyContext, vt |-> <<>>]
       ELSE IF vtFault
       THEN [status |-> 500, body |-> "Failed to validate token", next |-> FALSE,
             ctx |-> EmptyContext, vt |-> <<[Token |-> token, err |-> Unavailable, resp |-> NoResp]>>]
       ELSE IF resp.err # ""
       THEN [status |-> 500, body |-> "Failed to validate token", next |-> FALSE,
             ctx |-> EmptyContext, vt |-> <<[Token |-> token, err |-> RpcError(resp.err), resp |-> NoResp]>>]
       ELSE IF ~resp.Valid
       THEN [status |-> 401, body |-> "Invalid token: " \o resp.Error, next |-> FALSE,
             ctx |-> EmptyContext, vt |-> <<[Token |-> token, err |-> "", resp |-> resp]>>]
       ELSE [status |-> 0, body |-> "", next |-> TRUE, ctx |-> WithValue(EmptyContext, resp.UserId),
             vt |-> <<[Token |-> token, err |-> "", resp |-> resp]>>]

----------------------------------------------------------------------------
(* api-gateway: resource authorizer and user handlers *)

\* faulty variant: authorizeUserAccess without the comparison of the two ids
authorizeUserAccessMutNoCompare(requestedID, ctx) ==
    IF GetUserID(ctx) = "" THEN [id |-> "", err |-> "no authenticated user found"]
    ELSE [id |-> requestedID, err |-> ""]

\* faulty variant: authorizeUserAccess with the comparison of the ids inverted
authorizeUserAccessMutInverted(requestedID, ctx) ==
    LET authenticatedID == GetUserID(ctx)
    IN IF authenticatedID = "" THEN [id |-> "", err |-> "no authenticated user found"]
       ELSE IF requestedID = authenticatedID
       THEN [id |-> "", err |-> "forbidden: cannot access other users' data"]
       ELSE [id |-> requestedID, err |-> ""]

\* authorizeUserAccess(r): the path id when it is the authenticated id
authorizeUserAccess(requestedID, ctx) ==
    LET authenticatedID == GetUserID(ctx)
    IN IF authenticatedID = "" THEN [id |-> "", err |-> "no authenticated user found"]
       ELSE IF requestedID # authenticatedID
       THEN [id |-> "", err |-> "forbidden: cannot access other users' data"]
       ELSE [id |-> requestedID, err |-> ""]

\* what a user handler answers: status, error text, the JSON it encodes, the
\* user-service calls it made and the user-service tables after them
Answer(status, text, user, addrs, calls, profs, adds) ==
    [status |-> status, body |-> text, user |-> user, addrs |-> addrs, calls |-> calls,
     profiles |-> profs, addresses |-> adds]

UserJSON(u) == [id |-> u.id, email |-> u.email, name |-> u.name, phone |-> u.phone]
NoUserJSON == UserJSON(NoUser)

\* faulty variant: the Error field of the user service's answer is not looked at
GatewayGetUserMutIgnoreError(requestedID, ctx, fault) ==
    LET auth == authorizeUserAccess(requestedID, ctx)
        call == [rpc |-> "GetUser", UserId |-> auth.id]
        resp == GetUser(call.UserId, fault)
    IN IF auth.err # "" THEN Answer(403, auth.err, NoUserJSON, {}, <<>>, profiles, addresses)
       ELSE IF fault = "rpc"
       THEN Answer(500, "Failed to get user: " \o Unavailable, NoUserJSON, {}, <<call>>, profiles, addresses)
       ELSE Answer(200, "", UserJSON(resp.User), {}, <<call>>, profiles, addresses)

\* UserHandler.GetUser (gateway). fault: "none", "rpc" or "db"
GatewayGetUser(requestedID, ctx, fault) ==
    LET auth == authorizeUserAccess(requestedID, ctx)
        call == [rpc |-> "GetUser", UserId |-> auth.id]
        resp == GetUser(call.UserId, fault)
    IN IF auth.err # "" THEN Answer(403, auth.err, NoUserJSON, {}, <<>>, profiles, addresses)
       ELSE IF fault = "rpc"
       THEN Answer(500, "Failed to get user: " \o Unavailable, NoUserJSON, {}, <<call>>, profiles, addresses)
       ELSE IF resp.Error # "" THEN Answer(404, resp.Error, NoUserJSON, {}, <<call>>, profiles, addresses)
       ELSE Answer(200, "", UserJSON(resp.User), {}, <<call>>, profiles, addresses)

\* UserHandler.UpdateUser (gateway). body: [json, name, phone]
GatewayUpdateUser(requestedID, ctx, body, fault) ==
    LET auth == authorizeUserAccess(requestedID, ctx)
        call == [rpc |-> "UpdateUser", UserId |-> auth.id]
        resp == UpdateUser(call.UserId, body.name, body.phone, fault)
    IN IF auth.err # "" THEN Answer(403, auth.err, NoUserJSON, {}, <<>>, profiles, addresses)
       ELSE IF ~body.json THEN Answer(400, "Invalid JSON format", NoUserJSON, {}, <<>>, profiles, addresses)
       ELSE IF body.name = "" /\ body.phone = ""
       THEN Answer(400, "At least one field (name or phone) must be provided", NoUserJSON, {}, <<>>,
                   profiles, addresses)
       ELSE IF fault = "rpc"
       THEN Answer(500, "Failed to update user: " \o Unavailable, NoUserJSON, {}, <<call>>, profiles, addresses)
       ELSE IF resp.Error # "" THEN Answer(404, resp.Error, NoUserJSON, {}, <<call>>, resp.profiles, addresses)
       ELSE Answer(200, "", UserJSON(resp.User), {}, <<call>>, resp.profiles, addresses)

\* UserHandler.DeleteUser (gateway)
GatewayDeleteUser(requestedID, ctx, fault) ==
    LET auth == authorizeUserAccess(requestedID, ctx)
        call == [rpc |-> "DeleteUser", UserId |-> auth.id]
        resp == DeleteUser(call.UserId, fault)
    IN IF auth.err # "" THEN Answer(403, auth.err, NoUserJSON, {}, <<>>, profiles, addresses)
       ELSE IF fault = "rpc"
       THEN Answer(500, "Failed to delete user: " \o Unavailable, NoUserJSON, {}, <<call>>, profiles, addresses)
       ELSE IF resp.Error # "" THEN Answer(404, resp.Error, NoUserJSON, {}, <<call>>, resp.profiles, addresses)
       ELSE Answer(200, "User deleted successfully", NoUserJSON, {}, <<call>>, resp.profiles, addresses)

AddressJSON(a) == [a EXCEPT !.user_id = ""]

\* UserHandler.AddAddress (gateway). body: [json] and the address fields
GatewayAddAddress(requestedID, ctx, body, fault) ==
    LET auth == authorizeUserAccess(requestedID, ctx)
        call == [rpc |-> "AddAddress", UserId |-> auth.id]
        resp == AddAddress(call.UserId, body.address, fault)
    IN IF auth.err # "" THEN Answer(403, auth.err, NoUserJSON, {}, <<>>, profiles, addresses)
       ELSE IF ~body.json THEN Answer(400, "Invalid JSON format", NoUserJSON, {}, <<>>, profiles, addresses)
       ELSE IF body.address.street = "" \/ body.address.city = "" \/ body.address.country = ""
       THEN Answer(400, "Street, city, and country are required", NoUserJSON, {}, <<>>, profiles, addresses)
       ELSE IF fault = "rpc"
       THEN Answer(500, "Failed to add address: " \o Unavailable, NoUserJSON, {}, <<call>>, profiles, addresses)
       ELSE IF resp.Error # "" THEN Answer(400, resp.Error, NoUserJSON, {}, <<call>>, profiles, resp.addresses)
       ELSE Answer(201, "", NoUserJSON, {AddressJSON(resp.Address)}, <<call>>, profiles, resp.addresses)

\* UserHandler.GetAddresses (gateway)
GatewayGetAddresses(requestedID, ctx, fault) ==
    LET auth == authorizeUserAccess(requestedID, ctx)
        call == [rpc |-> "GetAddresses", UserId |-> auth.id]
        resp == GetAddresses(call.UserId, fault)
    IN IF auth.err # "" THEN Answer(403, auth.err, NoUserJSON, {}, <<>>, profiles, addresses)
       ELSE IF fault = "rpc"
       THEN Answer(500, "Failed to get addresses: " \o Unavailable, NoUserJSON, {}, <<call>>, profiles, addresses)
       ELSE IF resp.Error # "" THEN Answer(404, resp.Error, NoUserJSON, {}, <<call>>, profiles, addresses)
       ELSE Answer(200, "", NoUserJSON, {AddressJSON(a) : a \in resp.Addresses}, <<call>>, profiles, addresses)

----------------------------------------------------------------------------
(* api-gateway: public auth handlers. body: [json, email, password, name]; *)
(* rpcFault: the auth service is unreachable                               *)

PublicAnswer(status, text, userID, token, rpc) ==
    [status |-> status, body |-> text, user_id |-> userID, token |-> token, rpc |-> rpc]

\* AuthHandler.Register (gateway)
GatewayRegister(body, rpcFault, fault, mirrorFault) ==
    LET res == AuthHandlerRegister(body.email, body.password, body.name, fault, mirrorFault)
        NoRpc == [UserId |-> "", Message |-> "", err |-> "", mirror |-> <<>>,
                  accounts |-> accounts, profiles |-> profiles]
    IN IF ~body.json THEN PublicAnswer(400, "Invalid JSON format", "", NoToken, NoRpc)
       ELSE IF body.email = "" \/ body.name = "" \/ body.password = ""
       THEN PublicAnswer(400, "Email,name and password are required", "", NoToken, NoRpc)
       ELSE IF rpcFault
       THEN PublicAnswer(500, "Registration failed: " \o Unavailable, "", NoToken,
                         [NoRpc EXCEPT !.err = Unavailable])
       ELSE IF res.err # ""
       THEN PublicAnswer(500, "Registration failed: " \o RpcError(res.err), "", NoToken, res)
       ELSE PublicAnswer(201, res.Message, res.UserId, NoToken, res)

\* AuthHandler.Login (gateway)
GatewayLogin(body, rpcFault, fault) ==
    LET res == AuthHandlerLogin(body.email, body.password, fault)
        NoRpc == [Token |-> NoToken, UserId |-> "", Name |-> "", err |-> "", accounts |-> accounts]
    IN IF ~body.json THEN PublicAnswer(400, "Failed to parse JSON", "", NoToken, NoRpc)
       ELSE IF body.email = "" \/ body.password = ""
       THEN PublicAnswer(400, "Email and password are required", "", NoToken, NoRpc)
       ELSE IF rpcFault
       THEN PublicAnswer(401, "Login failed: " \o Unavailable, "", NoToken, [NoRpc EXCEPT !.err = Unavailable])
       ELSE IF res.err # ""
       THEN PublicAnswer(401, "Login failed: " \o RpcError(res.err), "", NoToken, res)
       ELSE PublicAnswer(200, "", res.UserId, res.Token, res)

----------------------------------------------------------------------------
(* api-gateway: the gRPC client set.  A connection is "auth" or "user"; a  *)
(* field of GRPCClients holds one or is "nil"                              *)

NoClients == [authConn |-> "nil", userConn |-> "nil"]

\* faulty variant: NewGRPCClients without the cleanup of the first connection
NewGRPCClientsMutLeak(open, authFails, userFails) ==
    IF authFails
    THEN [clients |-> NoClients, err |-> "failed to connect to auth service: dial error",
          open |-> open, closed |-> {}]
    ELSE IF userFails
    THEN [clients |-> NoClients, err |-> "failed to connect to user service: dial error",
          open |-> open \cup {"auth"}, closed |-> {}]
    ELSE [clients |-> [authConn |-> "auth", userConn |-> "user"], err |-> "",
          open |-> open \cup {"auth", "user"}, closed |-> {}]

\* NewGRPCClients: [clients, err], the connections open after the call and
\* the ones the call closed; authFails, userFails: grpc.Dial returns an error
NewGRPCClients(open, authFails, userFails) ==
    IF authFails
    THEN [clients |-> NoClients, err |-> "failed to connect to auth service: dial error",
          open |-> open, closed |-> {}]
    ELSE IF userFails
    THEN [clients |-> NoClients, err |-> "failed to connect to user service: dial error",
          open |-> (open \cup {"auth"}) \ {"auth"}, closed |-> {"auth"}]
    ELSE [clients |-> [authConn |-> "auth", userConn |-> "user"], err |-> "",
          open |-> open \cup {"auth", "user"}, closed |-> {}]

\* GRPCClients.Close: the connections open after the call and the ones on
\* which Close was called
Close(c, open) ==
    LET held == {c.authConn, c.userConn} \ {"nil"}
    IN [open |-> open \ held, closed |-> held, panic |-> FALSE]

----------------------------------------------------------------------------
(* The router (main): /health and /api/v1/auth/* are served without the    *)
(* gate; the group /api/v1/users has AuthMiddleware in front of every      *)
(* handler                                                                 *)

PublicRoutes == {"GET /health", "POST /api/v1/auth/register", "POST /api/v1/auth/login"}
UserRoutes == {"GET /api/v1/users/{id}", "PUT /api/v1/users/{id}", "DELETE /api/v1/users/{id}",
               "POST /api/v1/users/{id}/addresses", "GET /api/v1/users/{id}/addresses"}

NoGate == [status |-> 0, body |-> "", next |-> FALSE, ctx |-> EmptyContext, vt |-> <<>>]
NoBody == [json |-> TRUE, email |-> "", password |-> "", name |-> "", phone |-> "", address |-> NoAddress]

\* the handler a route of the users group is bound to
UserRouteHandler(route, requestedID, ctx, body, fault) ==
    CASE route = "GET /api/v1/users/{id}" -> GatewayGetUser(requestedID, ctx, fault)
      [] route = "PUT /api/v1/users/{id}" -> GatewayUpdateUser(requestedID, ctx, body, fault)
      [] route = "DELETE /api/v1/users/{id}" -> GatewayDeleteUser(requestedID, ctx, fault)
      [] route = "POST /api/v1/users/{id}/addresses" -> GatewayAddAddress(requestedID, ctx, body, fault)
      [] route = "GET /api/v1/users/{id}/addresses" -> GatewayGetAddresses(requestedID, ctx, fault)

\* whether the router puts the gate in front of a route
\* faulty variant: a router with the gate in front of every route
RouteIsGatedMutAll(route) == TRUE

RouteIsGated(route) == route \in UserRoutes

----------------------------------------------------------------------------
(* Observations *)

NoObs ==
    [op |-> "none", route |-> "", email |-> "", password |-> "", name |-> "", fault |-> "none",
     token |-> NoToken, userID |-> "", err |-> "", valid |-> FALSE,
     header |-> <<>>, pathId |-> "", gated |-> FALSE, gate |-> NoGate, handled |-> FALSE,
     status |-> 0, body |-> "", user |-> NoUserJSON, addrs |-> {}, calls |-> <<>>, mirror |-> <<>>,
     respName |-> "", phone |-> "", address |-> NoAddress, rpcErr |-> ""]

----------------------------------------------------------------------------
(* Tokens a client can present: the minted ones, alterations of them, and  *)
(* tokens made without the verifier's secret; plus tokens of a foreign     *)
(* issuer under the verifier's secret that carry no string user_id         *)

AccountIds == {a.id : a \in accounts}

Altered(t) ==
    {[t EXCEPT !.claims.user_id = StrClaim(id)] : id \in AccountIds \ {t.claims.user_id.v}}
    \cup {[t EXCEPT !.claims.exp = @ + TokenTTL],
          [t EXCEPT !.sig = HMACSign(AttackerSecret, t.alg, t.claims)],
          [t EXCEPT !.alg = "HS384", !.sig = HMACSign(AttackerSecret, "HS384", t.claims)],
          [t EXCEPT !.alg = "none", !.sig = <<>>]}

Forged ==
    {MalformedToken}
    \cup {SignedString([user_id |-> StrClaim(id), exp |-> Unix(now) + TokenTTL], AttackerSecret) : id \in AccountIds}

Foreign ==
    {SignedString([user_id |-> NoClaim, exp |-> Unix(now) + TokenTTL], jwtSecret),
     SignedString([user_id |-> NumClaim, exp |-> Unix(now) + TokenTTL], jwtSecret)}

MintedTokens == {m.token : m \in minted}

TokenInputs == MintedTokens \cup UNION {Altered(t) : t \in MintedTokens} \cup Forged \cup Foreign

Bearer(t) == <<Word("Bearer"), SP, Tok(t)>>

HeaderInputs ==
    {<<>>, <<Word("Basic"), SP, Word("dXNlcg==")>>, <<Word("Bearer")>>, <<Word("Bearer"), SP>>,
     <<Word("Bearer"), SP, SP>>}
    \cup {Bearer(t) : t \in TokenInputs}
    \cup UNION {{<<Word("bearer"), SP, Tok(t)>>, <<Word("Bearer"), SP, SP, Tok(t), SP>>,
                 <<Word("Bearer"), SP, Tok(t), SP, Tok(t)>>} : t \in MintedTokens}

PathIds == AccountIds \cup {"different-user-id"}

UpdateBodies == {[NoBody EXCEPT !.name = "Bo", !.phone = "555"], NoBody}
AddressBodies ==
    {[NoBody EXCEPT !.address = [NoAddress EXCEPT !.street = "1 Main St", !.city = "Paris",
                                                  !.postal_code = "75001", !.country = "FR"]],
     [NoBody EXCEPT !.address = [NoAddress EXCEPT !.street = "1 Main St", !.city = "Paris",
                                                  !.country = "FR"]]}

BodiesOf(route) ==
    CASE route = "PUT /api/v1/users/{id}" -> UpdateBodies
      [] route = "POST /api/v1/users/{id}/addresses" -> AddressBodies
      [] OTHER -> {NoBody}

----------------------------------------------------------------------------
(* Actions.  One client at a time: a call is made when no answer is        *)
(* pending (last = NoObs), and Deliver hands the answer over.              *)

\* concurrent callers of the Register RPC, each served by its own goroutine
Callers == 1..MaxCallers

\* a caller with no Register RPC in progress
NoCall ==
    [pc |-> "idle", email |-> "", password |-> "", name |-> "", hash |-> <<>>, fault |-> FALSE,
     regDone |-> FALSE, userID |-> "", regErr |-> "", mirror |-> <<>>, UserId |-> "", err |-> "",
     cancelled |-> FALSE, hung |-> FALSE, phone |-> ""]

Idle == last = NoObs

\* the gateway process before main has run
NoConns == [phase |-> "down", clients |-> NoClients, err |-> "", open |-> {}, closed |-> {}, panic |-> FALSE]

\* the account whose email and password these are ("" when there is none)
AccountOf(email, password) ==
    LET ids == {a.id : a \in {a \in accounts : a.email = email
                                               /\ CompareHashAndPassword(a.password, password) = ""}}
    IN IF ids = {} THEN "" ELSE CHOOSE id \in ids : TRUE

Mint(token, email, password) ==
    minted \cup {[token |-> token, account |-> AccountOf(email, password), secret |-> jwtSecret]}

Init ==
    /\ accounts = {}
    /\ profiles = {}
    /\ addresses = {}
    /\ jwtSecret = DefaultSecret
    /\ now = 0
    /\ clockSteps = 0
    /\ minted = {}
    /\ registered = {}
    /\ last = NoObs
    /\ inflight = [p \in Callers |-> NoCall]
    /\ conns = NoConns

Deliver ==
    /\ ~Idle
    /\ last' = NoObs
    /\ UNCHANGED <<inflight, accounts, profiles, addresses, jwtSecret, conns, now, clockSteps, minted, registered>>

\* a client calls the auth service's Register RPC
RpcRegister(Inputs, Faults, MirrorFaults) ==
    \E in \in Inputs, fault \in Faults, mirrorFault \in MirrorFaults :
        LET res == AuthHandlerRegister(in[1], in[2], in[3], fault, mirrorFault)
        IN /\ Idle
           /\ accounts' = res.accounts
           /\ profiles' = res.profiles
           /\ registered' = IF res.err = ""
                            THEN registered \cup {[id |-> res.UserId, email |-> in[1], password |-> in[2]]}
                            ELSE registered
           /\ last' = [NoObs EXCEPT !.op = "Register", !.email = in[1], !.password = in[2], !.name = in[3],
                                    !.fault = fault, !.userID = res.UserId, !.err = res.err,
                                    !.mirror = res.mirror]
           /\ UNCHANGED <<inflight, addresses, jwtSecret, conns, now, clockSteps, minted>>

\* a client calls the auth service's Login RPC
RpcLogin(Emails, Passwords, Faults, Max) ==
    \E email \in Emails, password \in Passwords, fault \in Faults :
        LET res == AuthHandlerLogin(email, password, fault)
        IN /\ Idle
           /\ res.err = "" => Cardinality(Mint(res.Token, email, password)) <= Max
           /\ minted' = IF res.err = "" THEN Mint(res.Token, email, password) ELSE minted
           /\ last' = [NoObs EXCEPT !.op = "Login", !.email = email, !.password = password,
                                    !.fault = fault, !.token = res.Token, !.userID = res.UserId,
                                    !.name = res.Name, !.err = res.err]
           /\ accounts' = res.accounts
           /\ UNCHANGED <<inflight, profiles, addresses, jwtSecret, conns, now, clockSteps, registered>>

\* a client calls the auth service's ValidateToken RPC
RpcValidateToken ==
    \E token \in TokenInputs :
        LET res == AuthHandlerValidateToken(token)
        IN /\ Idle
           /\ last' = [NoObs EXCEPT !.op = "ValidateToken", !.token = token, !.valid = res.Valid,
                                    !.userID = res.UserId, !.err = res.Error, !.rpcErr = res.err]
           /\ UNCHANGED <<inflight, accounts, profiles, addresses, jwtSecret, conns, now, clockSteps, minted, registered>>

\* an HTTP request to a public route of the gateway; rpcFault: the auth
\* service is unreachable, fault: a statement of the auth service's store fails
GatewayPublic(Bodies, RpcFaults, Faults) ==
    \E route \in PublicRoutes, header \in {<<>>}, body \in Bodies, rpcFault \in RpcFaults, fault \in Faults :
        LET gate == IF RouteIsGated(route) THEN AuthMiddleware(header, FALSE)
                    ELSE [NoGate EXCEPT !.next = TRUE]
            obs == [NoObs EXCEPT !.op = "http", !.route = route, !.header = header,
                                 !.gated = RouteIsGated(route), !.gate = gate,
                                 !.fault = IF rpcFault THEN "rpc" ELSE fault,
                                 !.email = body.email, !.password = body.password, !.name = body.name]
        IN /\ Idle
           /\ IF ~gate.next
              THEN /\ last' = [obs EXCEPT !.status = gate.status, !.body = gate.body]
                   /\ UNCHANGED <<accounts, profiles, minted, registered>>
              ELSE CASE route = "GET /health" ->
                        /\ last' = [obs EXCEPT !.handled = TRUE, !.status = 200, !.body = "OK", !.fault = "none",
                                               !.email = "", !.password = "", !.name = ""]
                        /\ UNCHANGED <<accounts, profiles, minted, registered>>
                     [] route = "POST /api/v1/auth/register" ->
                        LET ans == GatewayRegister(body, rpcFault, fault, "none")
                        IN /\ accounts' = ans.rpc.accounts
                           /\ profiles' = ans.rpc.profiles
                           /\ registered' = IF ans.status = 201
                                            THEN registered \cup {[id |-> ans.user_id, email |-> body.email,
                                                                   password |-> body.password]}
                                            ELSE registered
                           /\ last' = [obs EXCEPT !.handled = TRUE, !.status = ans.status, !.body = ans.body,
                                                  !.userID = ans.user_id, !.err = ans.rpc.err]
                           /\ UNCHANGED minted
                     [] route = "POST /api/v1/auth/login" ->
                        LET ans == GatewayLogin(body, rpcFault, IF fault = "select" THEN fault ELSE "none")
                        IN /\ ans.status = 200 =>
                                  Cardinality(Mint(ans.token, body.email, body.password)) <= MaxTokens
                           /\ minted' = IF ans.status = 200 THEN Mint(ans.token, body.email, body.password)
                                         ELSE minted
                           /\ last' = [obs EXCEPT !.handled = TRUE, !.status = ans.status, !.body = ans.body,
                                                  !.fault = IF rpcFault THEN "rpc"
                                                            ELSE IF fault = "select" THEN fault ELSE "none",
                                                  !.userID = ans.user_id, !.token = ans.token,
                                                  !.respName = ans.rpc.Name, !.err = ans.rpc.err]
                           /\ accounts' = ans.rpc.accounts
                           /\ UNCHANGED <<profiles, registered>>
           /\ UNCHANGED <<inflight, addresses, jwtSecret, conns, now, clockSteps>>

\* an HTTP request under /api/v1/users: the gate, then the route's handler
GatewayUsers(Routes, Headers, VtFaults, Faults) ==
    \E route \in Routes, header \in Headers, vtFault \in VtFaults :
        LET gate == IF RouteIsGated(route) THEN AuthMiddleware(header, vtFault)
                    ELSE [NoGate EXCEPT !.next = TRUE]
            obs == [NoObs EXCEPT !.op = "http", !.route = route, !.header = header,
                                 !.gated = RouteIsGated(route), !.gate = gate]
        IN /\ Idle
           /\ IF ~gate.next
              THEN /\ last' = [obs EXCEPT !.status = gate.status, !.body = gate.body]
                   /\ UNCHANGED <<profiles, addresses>>
              ELSE \E pathId \in PathIds, fault \in Faults, body \in BodiesOf(route) :
                   LET ans == UserRouteHandler(route, pathId, gate.ctx, body, fault)
                   IN /\ Cardinality(ans.addresses) <= MaxAddresses
                      /\ profiles' = ans.profiles
                      /\ addresses' = ans.addresses
                      /\ last' = [obs EXCEPT !.handled = TRUE, !.pathId = pathId,
                                             !.fault = fault, !.name = body.name,
                                             !.status = ans.status, !.body = ans.body,
                                             !.user = ans.user, !.addrs = ans.addrs, !.calls = ans.calls]
           /\ UNCHANGED <<inflight, accounts, jwtSecret, conns, now, clockSteps, minted, registered>>

\* time passes: one tick, or all but one tick of a token's lifetime
AdvanceClock ==
    \E d \in {1, TokenTTL * TicksPerSecond - 1} :
        /\ Idle
        /\ clockSteps < MaxClockSteps
        /\ now' = now + d
        /\ clockSteps' = clockSteps + 1
        /\ UNCHANGED <<inflight, accounts, profiles, addresses, jwtSecret, conns, minted, registered, last>>

\* the auth service is restarted with another JWT_SECRET (main, NewAuthService)
RestartAuthService ==
    \E secret \in Secrets \ {jwtSecret} :
    /\ Idle
    /\ jwtSecret' = secret
    /\ UNCHANGED <<conns, inflight, accounts, profiles, addresses, now, clockSteps, minted, registered, last>>

----------------------------------------------------------------------------
(* Spec: the auth service called over gRPC, with soft deletes of profiles   *)
(* arriving through the gateway under valid tokens                         *)

ValidHeaders == {Bearer(t) : t \in MintedTokens}

Next ==
    \/ RpcRegister(RegisterInputs, {"none", "select", "insert"}, {"none"})
    \/ RpcLogin(LoginEmails, LoginPasswords, {"none", "select"}, MaxTokens)
    \/ RpcValidateToken
    \/ GatewayUsers({"DELETE /api/v1/users/{id}"}, ValidHeaders, {FALSE}, {"none"})
    \/ AdvanceClock
    \/ RestartAuthService
    \/ Deliver

Spec == Init /\ [][Next]_vars

----------------------------------------------------------------------------
(* SpecGate: the gateway as the only entry point                           *)

JSON(email, password, name) == [NoBody EXCEPT !.email = email, !.password = password, !.name = name]

GateBodies ==
    {JSON("a@x", "pw1", "Al"), JSON("b@x", "pw1", "Bea"), JSON("a@x", "pw2", "")}

NextGate ==
    \/ GatewayPublic(GateBodies, {FALSE}, {"none"})
    \/ GatewayUsers(UserRoutes, HeaderInputs, BOOLEAN, {"none", "rpc"})
    \/ Deliver

SpecGate == Init /\ [][NextGate]_vars

----------------------------------------------------------------------------
(* SpecSession: the life of the tokens of one email address, with further  *)
(* logins, refused registrations, profile updates and soft deletes         *)

SessionRegisterInputs == {<<"a@x", "pw1", "Al">>, <<"a@x", "pw2", "Bo">>}

NextSession ==
    \/ RpcRegister(SessionRegisterInputs, {"none", "insert"}, {"none"})
    \/ RpcLogin({"a@x"}, LoginPasswords, {"none"}, MaxSessionTokens)
    \/ RpcValidateToken
    \/ GatewayUsers({"PUT /api/v1/users/{id}", "DELETE /api/v1/users/{id}"}, ValidHeaders, {FALSE}, {"none"})
    \/ AdvanceClock
    \/ RestartAuthService
    \/ Deliver

SpecSession == Init /\ [][NextSession]_vars

----------------------------------------------------------------------------
(* SpecRace: Register RPCs served concurrently.  The gRPC server runs each *)
(* call in its own goroutine; a call advances at its blocking calls: the   *)
(* SELECT by email, the INSERT, and the mirror CreateUser RPC.             *)

RaceInputs == {<<"a@x", "pw1", "Al">>, <<"a@x", "pw2", "Bo">>, <<"b@x", "pw1", "Bea">>}

Others == <<accounts, profiles, addresses, jwtSecret, conns, now, clockSteps, minted, registered, last>>

\* faulty variant: a handler that goes on to the mirror call after an error
RegisterFailedMutGoOn(c, err, faulted) ==
    [c EXCEPT !.pc = "mirror", !.regDone = TRUE, !.regErr = err, !.err = err, !.fault = @ \/ faulted]

\* the service has returned err to the handler, which returns it to the caller
RegisterFailed(c, err, faulted) ==
    [c EXCEPT !.pc = "done", !.regDone = TRUE, !.regErr = err, !.err = err, !.fault = @ \/ faulted]

\* a caller sends a Register request
RegisterCall(p) ==
    \E in \in RaceInputs :
        /\ inflight[p].pc = "idle"
        /\ inflight' = [inflight EXCEPT ![p] = [NoCall EXCEPT !.pc = "lookup", !.email = in[1],
                                                              !.password = in[2], !.name = in[3]]]
        /\ UNCHANGED Others

\* AuthService.Register up to the INSERT: the lookup by email, the duplicate
\* check and the hashing
RegisterLookup(p) ==
    \E fault \in {"none", "select"} :
        LET c == inflight[p]
            h == GenerateFromPassword(c.password, Cardinality(accounts))
        IN /\ c.pc = "lookup"
           /\ inflight' = [inflight EXCEPT ![p] =
                  IF fault = "select" THEN RegisterFailed(c, DbError, TRUE)
                  ELSE IF GetUserByEmail(c.email) # {} THEN RegisterFailed(c, "email already registered", FALSE)
                  ELSE IF h.err # "" THEN RegisterFailed(c, h.err, FALSE)
                  ELSE [c EXCEPT !.pc = "insert", !.hash = h.hash]]
           /\ UNCHANGED Others

\* AuthService.Register from the INSERT on: repo.CreateUser and the return
RegisterInsert(p) ==
    \E fault \in {"none", "insert"} :
        LET c == inflight[p]
            ins == RepoCreateUser([email |-> c.email, password |-> c.hash, name |-> c.name,
                                   last_login |-> ZeroTime])
        IN /\ c.pc = "insert"
           /\ IF fault = "insert"
              THEN /\ inflight' = [inflight EXCEPT ![p] = RegisterFailed(c, DbError, TRUE)]
                   /\ UNCHANGED accounts
              ELSE IF ins.err # ""
              THEN /\ inflight' = [inflight EXCEPT ![p] = RegisterFailed(c, ins.err, FALSE)]
                   /\ UNCHANGED accounts
              ELSE /\ inflight' = [inflight EXCEPT ![p] =
                                      [c EXCEPT !.pc = "mirror", !.regDone = TRUE, !.userID = ins.id]]
                   /\ accounts' = ins.accounts
           /\ UNCHANGED <<profiles, addresses, jwtSecret, conns, now, clockSteps, minted, registered, last>>

\* AuthHandler.Register after the service returned an id: the mirror
\* CreateUser RPC and the response
RegisterMirror(p) ==
    \E mirrorFault \in {"none", "rpc", "db"} :
        LET c == inflight[p]
            call == [UserId |-> c.userID, Email |-> c.email, Name |-> c.name, Phone |-> ""]
            r == CreateUser(call.UserId, call.Email, call.Name, call.Phone, mirrorFault)
            sent == [c EXCEPT !.pc = "done", !.mirror = Append(@, call), !.fault = @ \/ mirrorFault # "none"]
        IN /\ c.pc = "mirror"
           /\ IF mirrorFault = "rpc"
              THEN /\ inflight' = [inflight EXCEPT ![p] = [sent EXCEPT !.err = Unavailable]]
                   /\ UNCHANGED <<profiles, registered>>
              ELSE IF r.Error # ""
              THEN /\ inflight' = [inflight EXCEPT ![p] = [sent EXCEPT !.err = r.Error]]
                   /\ profiles' = r.profiles
                   /\ UNCHANGED registered
              ELSE /\ inflight' = [inflight EXCEPT ![p] = [sent EXCEPT !.UserId = c.userID]]
                   /\ profiles' = r.profiles
                   /\ registered' = registered \cup {[id |-> c.userID, email |-> c.email,
                                                      password |-> c.password]}
           /\ UNCHANGED <<accounts, addresses, jwtSecret, conns, now, clockSteps, minted, last>>

NextRace ==
    \E p \in Callers :
        \/ RegisterCall(p)
        \/ RegisterLookup(p)
        \/ RegisterInsert(p)
        \/ RegisterMirror(p)

SpecRace == Init /\ [][NextRace]_vars

----------------------------------------------------------------------------
(* SpecMirror: registration with a failing identity mirror.  Register RPCs *)
(* arrive at the auth service directly, with empty fields too and with the *)
(* user service failing; the gateway serves its public routes and the      *)
(* users group under the tokens it handed out.                             *)

MirrorInputs ==
    {<<"a@x", "pw1", "Al">>, <<"a@x", "pw1", "">>, <<"", "pw1", "Al">>, <<"b@x", "", "Bea">>}

MirrorBodies == {JSON("a@x", "pw1", "Al"), JSON("a@x", "pw1", ""), JSON("b@x", "", "Bea")}

NextMirror ==
    \/ RpcRegister(MirrorInputs, {"none", "insert"}, {"none", "rpc", "db"})
    \/ GatewayPublic(MirrorBodies, {FALSE}, {"none"})
    \/ GatewayUsers(UserRoutes, ValidHeaders, {FALSE}, {"none"})
    \/ Deliver

SpecMirror == Init /\ [][NextMirror]_vars

----------------------------------------------------------------------------
(* SpecOutage: the public routes of the gateway while the auth service or  *)
(* a statement of its store fails                                          *)

NextOutage ==
    \/ GatewayPublic(GateBodies, BOOLEAN, {"none", "select", "insert"})
    \/ Deliver

SpecOutage == Init /\ [][NextOutage]_vars

----------------------------------------------------------------------------
(* SpecCancel: a Register RPC whose caller gives up.  The gRPC server      *)
(* cancels the handler's ctx when the caller cancels or the deadline       *)
(* passes.  AuthHandler.Register passes ctx to the mirror CreateUser call  *)
(* only: AuthService.Register takes no context, and the repository runs    *)
(* db.QueryRow and db.Exec, which wait for the database's answer whatever  *)
(* happens to ctx.  A dependency may never answer (hung).                  *)

Blocked(c) == c.pc \in {"lookup", "insert", "mirror"}

\* the caller cancels the request, or its deadline passes
CancelRequest(p) ==
    /\ Blocked(inflight[p]) /\ ~inflight[p].cancelled
    /\ inflight' = [inflight EXCEPT ![p].cancelled = TRUE]
    /\ UNCHANGED Others

\* the dependency the call is waiting for stops answering
DependencyHangs(p) ==
    /\ Blocked(inflight[p]) /\ ~inflight[p].hung
    /\ inflight' = [inflight EXCEPT ![p].hung = TRUE]
    /\ UNCHANGED Others

\* the mirror call, made with ctx, returns once ctx is cancelled
RegisterAbandon(p) ==
    /\ inflight[p].pc = "mirror" /\ inflight[p].cancelled
    /\ inflight' = [inflight EXCEPT ![p].pc = "done",
                                    ![p].err = "rpc error: code = Canceled desc = context canceled"]
    /\ UNCHANGED Others

\* the steps the goroutine serving the call takes by itself: the blocking
\* call it waits for returns with the dependency's answer, or with the
\* cancellation where the call watches ctx
WorkerStep(p) ==
    \/ RegisterAbandon(p)
    \/ ~inflight[p].hung /\ RegisterLookup(p)
    \/ ~inflight[p].hung /\ RegisterInsert(p)
    \/ ~inflight[p].hung /\ RegisterMirror(p)

NextCancel ==
    \E p \in Callers :
        \/ RegisterCall(p)
        \/ CancelRequest(p)
        \/ DependencyHangs(p)
        \/ WorkerStep(p)

\* the Go scheduler runs every goroutine that can run
SpecCancel == Init /\ [][NextCancel]_vars /\ \A p \in Callers : WF_vars(WorkerStep(p))

----------------------------------------------------------------------------
(* SpecUser: the user service called over gRPC, as its test client and the *)
(* auth service's mirror call do                                           *)

\* <<UserId, Email, Name, Phone>> of a CreateUser request
CreateInputs == {<<"u1", "a@x", "Al", "">>, <<"u2", "b@x", "Bea", "123">>, <<"u1", "c@x", "Cy", "">>}

UserIds == {"u1", "u2", "no-such-user", ""}

\* <<Name, Phone>> of an UpdateUser request
UpdateInputs == {<<"Bo", "555">>, <<"", "777">>}

AddressInputs ==
    {[NoAddress EXCEPT !.street = "1 Main St", !.city = "Paris", !.postal_code = "75001", !.country = "FR",
                       !.is_default = TRUE],
     [NoAddress EXCEPT !.street = "2 Side St", !.city = "Lyon", !.state = "ARA", !.postal_code = "69001",
                       !.country = "FR"],
     [NoAddress EXCEPT !.street = "3 High St", !.city = "Nice", !.country = "FR"],
     [NoAddress EXCEPT !.city = "Nice", !.postal_code = "06000", !.country = "FR"],
     [NoAddress EXCEPT !.street = "3 High St", !.postal_code = "06000", !.country = "FR"],
     [NoAddress EXCEPT !.street = "3 High St", !.city = "Nice", !.postal_code = "06000"]}

UserObs(op, userID, fault) == [NoObs EXCEPT !.op = op, !.userID = userID, !.fault = fault]

Frame == <<inflight, accounts, jwtSecret, conns, now, clockSteps, minted, registered>>

\* UserHandler.CreateUser
RpcCreateUser ==
    \E in \in CreateInputs, fault \in {"none", "db"} :
        LET res == CreateUser(in[1], in[2], in[3], in[4], fault)
        IN /\ Idle
           /\ profiles' = res.profiles
           /\ last' = [UserObs("CreateUser", in[1], fault) EXCEPT
                           !.email = in[2], !.name = in[3], !.phone = in[4],
                           !.err = res.Error, !.user = UserJSON(res.User)]
           /\ UNCHANGED <<addresses, Frame>>

\* UserHandler.GetUser
RpcGetUser ==
    \E userID \in UserIds, fault \in {"none", "db"} :
        LET res == GetUser(userID, fault)
        IN /\ Idle
           /\ last' = [UserObs("GetUser", userID, fault) EXCEPT !.err = res.Error, !.user = UserJSON(res.User)]
           /\ UNCHANGED <<profiles, addresses, Frame>>

\* UserHandler.UpdateUser
RpcUpdateUser ==
    \E userID \in UserIds, in \in UpdateInputs, fault \in {"none", "db"} :
        LET res == UpdateUser(userID, in[1], in[2], fault)
        IN /\ Idle
           /\ profiles' = res.profiles
           /\ last' = [UserObs("UpdateUser", userID, fault) EXCEPT
                           !.name = in[1], !.phone = in[2], !.err = res.Error, !.user = UserJSON(res.User)]
           /\ UNCHANGED <<addresses, Frame>>

\* UserHandler.DeleteUser
RpcDeleteUser ==
    \E userID \in UserIds, fault \in {"none", "db"} :
        LET res == DeleteUser(userID, fault)
        IN /\ Idle
           /\ profiles' = res.profiles
           /\ last' = [UserObs("DeleteUser", userID, fault) EXCEPT !.err = res.Error, !.valid = res.IsDeleted]
           /\ UNCHANGED <<addresses, Frame>>

\* UserHandler.AddAddress
RpcAddAddress ==
    \E userID \in UserIds, a \in AddressInputs, fault \in {"none", "db"} :
        LET res == AddAddress(userID, a, fault)
        IN /\ Idle
           /\ Cardinality(res.addresses) <= MaxUserAddresses
           /\ addresses' = res.addresses
           /\ last' = [UserObs("AddAddress", userID, fault) EXCEPT
                           !.address = a, !.err = res.Error,
                           !.addrs = IF res.Error = "" THEN {res.Address} ELSE {}]
           /\ UNCHANGED <<profiles, Frame>>

\* UserHandler.GetAddresses
RpcGetAddresses ==
    \E userID \in UserIds, fault \in {"none", "db"} :
        LET res == GetAddresses(userID, fault)
        IN /\ Idle
           /\ last' = [UserObs("GetAddresses", userID, fault) EXCEPT !.err = res.Error, !.addrs = res.Addresses]
           /\ UNCHANGED <<profiles, addresses, Frame>>

NextUser ==
    \/ RpcCreateUser
    \/ RpcGetUser
    \/ RpcUpdateUser
    \/ RpcDeleteUser
    \/ RpcAddAddress
    \/ RpcGetAddresses
    \/ Deliver

SpecUser == Init /\ [][NextUser]_vars

----------------------------------------------------------------------------
(* SpecUpdateRace: UpdateUser and DeleteUser RPCs of the user service      *)
(* served concurrently.  UserService.UpdateUser advances at its two        *)
(* statements, the SELECT of GetUser and the UPDATE; DeleteUser is one     *)
(* UPDATE.                                                                 *)

\* a caller sends an UpdateUser request
UpdateCall(p) ==
    \E userID \in {"u1", "u2"}, in \in UpdateInputs :
        /\ inflight[p].pc = "idle"
        /\ inflight' = [inflight EXCEPT ![p] = [NoCall EXCEPT !.pc = "read", !.userID = userID,
                                                              !.name = in[1], !.phone = in[2]]]
        /\ UNCHANGED Others

\* UserService.UpdateUser up to the UPDATE: GetUser and the assignments
UpdateRead(p) ==
    LET c == inflight[p]
        got == GetUser(c.userID, "none")
    IN /\ c.pc = "read"
       /\ inflight' = [inflight EXCEPT ![p] =
              IF got.Error # "" THEN [c EXCEPT !.pc = "done", !.err = got.Error]
              ELSE [c EXCEPT !.pc = "write", !.email = got.User.email]]
       /\ UNCHANGED Others

\* UserService.UpdateUser from the UPDATE on: repo.UpdateUser and the return
UpdateWrite(p) ==
    LET c == inflight[p]
        user == [id |-> c.userID, email |-> c.email, name |-> c.name, phone |-> c.phone, deleted |-> FALSE]
    IN /\ c.pc = "write"
       /\ profiles' = UserRepoUpdateUser(user)
       /\ inflight' = [inflight EXCEPT ![p] = [c EXCEPT !.pc = "done", !.UserId = c.userID]]
       /\ UNCHANGED <<accounts, addresses, jwtSecret, conns, now, clockSteps, minted, registered, last>>

\* a caller's DeleteUser request, served in one statement
DeleteCall(p) ==
    \E userID \in {"u1", "u2"} :
        LET res == DeleteUser(userID, "none")
        IN /\ inflight[p].pc = "idle"
           /\ profiles' = res.profiles
           /\ inflight' = [inflight EXCEPT ![p] = [NoCall EXCEPT !.pc = "done", !.userID = userID,
                                                                 !.err = res.Error]]
           /\ UNCHANGED <<accounts, addresses, jwtSecret, conns, now, clockSteps, minted, registered, last>>

NextUpdateRace ==
    \/ RpcCreateUser
    \/ Deliver
    \/ \E p \in Callers :
        \/ UpdateCall(p)
        \/ UpdateRead(p)
        \/ UpdateWrite(p)
        \/ DeleteCall(p)

SpecUpdateRace == Init /\ [][NextUpdateRace]_vars

----------------------------------------------------------------------------
(* SpecClients: the life of the gateway process: main connects to the two  *)
(* services, serves its public routes while it is up, and closes its       *)
(* client set when it returns                                              *)

\* main: NewGRPCClients; log.Fatalf when it returns an error
GatewayStart ==
    \E authFails \in BOOLEAN, userFails \in BOOLEAN :
        LET r == NewGRPCClients(conns.open, authFails, userFails)
        IN /\ conns.phase = "down"
           /\ conns' = [conns EXCEPT !.phase = IF r.err = "" THEN "up" ELSE "failed",
                                     !.clients = r.clients, !.err = r.err,
                                     !.open = r.open, !.closed = r.closed]
           /\ UNCHANGED <<accounts, profiles, addresses, jwtSecret, now, clockSteps, minted, registered, last, inflight>>

\* Close on the client set the process holds: the one NewGRPCClients
\* returned (main's deferred call), or a GRPCClients with no connection
GatewayClose ==
    LET r == Close(conns.clients, conns.open)
    IN /\ conns.phase \in {"up", "down"} /\ Idle
       /\ conns' = [conns EXCEPT !.phase = "closed", !.open = r.open, !.closed = r.closed,
                                 !.panic = r.panic]
       /\ UNCHANGED <<accounts, profiles, addresses, jwtSecret, now, clockSteps, minted, registered, last, inflight>>

\* the process has ended: the operating system closes what it left open
GatewayExit ==
    /\ conns.phase \in {"failed", "closed"}
    /\ conns' = NoConns
    /\ UNCHANGED <<accounts, profiles, addresses, jwtSecret, now, clockSteps, minted, registered, last, inflight>>

NextClients ==
    \/ GatewayStart
    \/ GatewayClose
    \/ GatewayExit
    \/ conns.phase = "up" /\ GatewayPublic(GateBodies, {FALSE}, {"none"})
    \/ Deliver

SpecClients == Init /\ [][NextClients]_vars

----------------------------------------------------------------------------
(* Properties of the gateway, checked under SpecGate *)

\* C1 -- self-access: every call a request under /api/v1/users makes to the
\* user service carries the user id that ValidateToken returned for the
\* request's bearer token, which is the token's subject; the Profile rows and
\* address rows the request changes, and the ones it returns, are those of
\* that id.
C1SelfAccess ==
    [][(Idle /\ last'.op = "http" /\ last'.gated) =>
          LET vt == last'.gate.vt
              verified == Len(vt) = 1 /\ vt[1].err = "" /\ vt[1].resp.Valid /\ vt[1].resp.UserId # ""
              id == IF Len(vt) = 1 THEN vt[1].resp.UserId ELSE ""
              changedProfiles == (profiles \ profiles') \cup (profiles' \ profiles)
              changedAddresses == (addresses \ addresses') \cup (addresses' \ addresses)
              touched == changedProfiles # {} \/ changedAddresses # {} \/ last'.calls # <<>>
                         \/ last'.user # NoUserJSON \/ last'.addrs # {}
          IN /\ touched => /\ verified
                           /\ DecodeTokenString(vt[1].Token).claims.user_id = StrClaim(id)
             /\ \A i \in 1..Len(last'.calls) : last'.calls[i].UserId = id
             /\ \A p \in changedProfiles : p.id = id
             /\ \A a \in changedAddresses : a.user_id = id
             /\ last'.user # NoUserJSON => last'.user.id = id
             /\ \A a \in last'.addrs : \E row \in addresses' : row.id = a.id /\ row.user_id = id
      ]_vars

\* a Profile was soft-deleted through the gateway while another account exists
C1Witness ==
    /\ last.op = "http" /\ last.gated /\ last.handled
    /\ last.route = "DELETE /api/v1/users/{id}" /\ last.status = 200
    /\ Len(last.calls) = 1 /\ last.calls[1].UserId = last.pathId
    /\ \E p \in profiles : p.id = last.pathId /\ p.deleted
    /\ \E p \in profiles : p.id # last.pathId

\* C2 -- request gate: a request passes through the gate exactly when its
\* route is not /health, /auth/register or /auth/login; behind the gate the
\* handler runs if and only if the ValidateToken call returned without
\* transport error and with Valid = true, and GetUserID on the handler's
\* context is then the UserId of that response.
C2RequestGate ==
    last.op = "http" =>
        LET vt == last.gate.vt
        IN /\ last.gated <=> last.route \notin PublicRoutes
           /\ ~last.gated => vt = <<>> /\ last.handled
           /\ last.gated =>
                  (last.handled <=> (Len(vt) = 1 /\ vt[1].err = "" /\ vt[1].resp.Valid))
           /\ (last.gated /\ last.handled) => GetUserID(last.gate.ctx) = vt[1].resp.UserId

\* a gated request reached its handler with an identity in its context
C2Witness ==
    /\ last.op = "http" /\ last.gated /\ last.handled
    /\ GetUserID(last.gate.ctx) \in AccountIds

\* C3 -- gate status mapping: no Authorization header, a header that does not
\* start with "Bearer ", a token that is empty after trimming, and a token the
\* verifier reports invalid each get 401; the gate answers 500 exactly when
\* the ValidateToken call itself failed.
C3GateStatus ==
    (last.op = "http" /\ last.gated) =>
        LET h == last.header
            bearer == Len(h) >= 2 /\ h[1] = Word("Bearer") /\ h[2] = SP
            vt == last.gate.vt
        IN /\ h = <<>> => last.status = 401 /\ ~last.handled
           /\ (h # <<>> /\ ~bearer) => last.status = 401 /\ ~last.handled
           /\ (bearer /\ \A i \in 3..Len(h) : h[i] = SP) => last.status = 401 /\ ~last.handled
           /\ (Len(vt) = 1 /\ vt[1].err = "" /\ ~vt[1].resp.Valid) => last.status = 401 /\ ~last.handled
           /\ (last.status = 500 /\ ~last.handled) <=> (Len(vt) = 1 /\ vt[1].err # "")

\* the verifier was unreachable for a request bearing a minted token
C3Witness ==
    /\ last.op = "http" /\ last.gated /\ ~last.handled /\ last.status = 500
    /\ Len(last.gate.vt) = 1 /\ last.gate.vt[1].err # ""
    /\ DecodeTokenString(last.gate.vt[1].Token) \in MintedTokens

----------------------------------------------------------------------------
(* Properties of the auth service, checked under Spec *)

\* a Login with the email and password of an earlier successful Register
\* succeeds, and its token verifies to the id that Register returned
C4LoginPart ==
    (last.op = "Login" /\ last.fault = "none") =>
        \A r \in registered :
            (r.email = last.email /\ r.password = last.password) =>
                /\ last.err = ""
                /\ ValidateToken(last.token) = [userID |-> r.id, err |-> ""]

\* Register of an email that has no Account, while the store answers
C4RegisterCase ==
    /\ Idle /\ last'.op = "Register" /\ last'.fault = "none"
    /\ last'.email # "" /\ last'.password # "" /\ last'.name # ""
    /\ GetUserByEmail(last'.email) = {}

C4RegisterSucceeds ==
    /\ last'.err = "" /\ last'.userID # ""
    /\ \E a \in accounts' : a.id = last'.userID /\ a.email = last'.email
    /\ [id |-> last'.userID, email |-> last'.email, password |-> last'.password] \in registered'

C5Unforgeable ==
    last.op = "ValidateToken" =>
        /\ last.valid =>
               /\ last.err = "" /\ last.userID # ""
               /\ \E m \in minted : /\ m.token = last.token /\ m.secret = jwtSecret
                                    /\ m.account = last.userID
        /\ ~last.valid => last.userID = "" /\ last.err # ""
        /\ (last.token \notin MintedTokens \/ last.token.form # "jwt"
            \/ last.token.claims.user_id.t # "string") => ~last.valid /\ last.err # ""

\* a token altered from one that is valid right now was presented and rejected
C5Witness ==
    /\ last.op = "ValidateToken" /\ ~last.valid /\ last.err # ""
    /\ last.token.form = "jwt" /\ last.token.alg = "HS256"
    /\ \E m \in minted : /\ last.token \in Altered(m.token)
                         /\ ValidateToken(m.token).err = ""

\* C6 -- expiry: a token whose exp is less than or equal to the current time
\* fails ValidateToken, also when its signature is valid for the current
\* secret.
C6Expiry ==
    (last.op = "ValidateToken" /\ last.token.form = "jwt"
     /\ last.token.claims.exp * TicksPerSecond <= now) =>
        ~last.valid /\ last.userID = "" /\ last.err # ""

\* a minted token, signed with the current secret, was presented at the very
\* instant of its exp
C6Witness ==
    /\ last.op = "ValidateToken" /\ ~last.valid
    /\ last.token.claims.exp * TicksPerSecond = now
    /\ \E m \in minted : m.token = last.token /\ m.secret = jwtSecret

\* C7 -- a token signed with a secret other than the verifier's configured
\* secret fails ValidateToken; after a change of the secret every token minted
\* before it fails.
C7OtherSecret ==
    /\ (last.op = "ValidateToken" /\ Len(last.token.sig) = 4 /\ last.token.sig[2] # jwtSecret) =>
           ~last.valid /\ last.userID = "" /\ last.err # ""
    /\ (last.op = "ValidateToken" /\ \E m \in minted : m.token = last.token /\ m.secret # jwtSecret) =>
           ~last.valid /\ last.err # ""

\* an unexpired minted token was presented after the secret changed
C7Witness ==
    /\ last.op = "ValidateToken" /\ ~last.valid
    /\ now < last.token.claims.exp * TicksPerSecond
    /\ \E m \in minted : m.token = last.token /\ m.secret # jwtSecret

\* C8 -- every token a successful Login mints carries the id of the Account
\* whose email and password were presented, and an exp equal to the issuance
\* time (in whole seconds) plus exactly 24 hours.
C8TokenContent ==
    (last.op = "Login" /\ last.err = "") =>
        /\ last.token.claims.exp = Unix(now) + 24 * 60 * 60
        /\ \E a \in accounts : /\ a.email = last.email
                               /\ CompareHashAndPassword(a.password, last.password) = ""
                               /\ last.token.claims.user_id = StrClaim(a.id)
        /\ last.token \in MintedTokens

\* a Login that succeeded within a second, for the second of two accounts
C8Witness ==
    /\ last.op = "Login" /\ last.err = "" /\ now % TicksPerSecond # 0
    /\ last.token.claims.user_id = StrClaim("u2")

\* C10 -- Register with an email that already has an Account fails, with
\* "email already registered" when the store answers the lookup, returns no
\* id, and leaves the Account and the rest of the Credential Store unchanged.
C10DuplicateEmail ==
    [][(Idle /\ last'.op = "Register" /\ GetUserByEmail(last'.email) # {}) =>
           /\ last'.fault # "select" => last'.err = "email already registered"
           /\ last'.err # "" /\ last'.userID = ""
           /\ accounts' = accounts
           /\ registered' = registered
      ]_vars

\* a second Register of a registered email, with another password and name
C10Witness ==
    /\ last.op = "Register" /\ last.err = "email already registered"
    /\ \E a \in accounts : /\ a.email = last.email /\ a.name # last.name
                           /\ CompareHashAndPassword(a.password, last.password) # ""
    /\ Cardinality(accounts) = 2

----------------------------------------------------------------------------
(* Properties of a token's lifetime, checked under SpecSession *)

\* C9 -- no revocation: a minted token verifies to its account id at every
\* time before its exp while the secret is the one it was signed with,
\* whatever happened since (further logins, profile update, soft delete of the
\* Profile, refused registrations).
C9NoRevocation ==
    last.op = "ValidateToken" =>
        \A m \in minted :
            (m.token = last.token /\ m.secret = jwtSecret
             /\ now < m.token.claims.exp * TicksPerSecond) =>
                last.valid /\ last.userID = m.account /\ last.err = ""

\* the older of two tokens still verifies after its Profile was updated and
\* then soft-deleted
C9Witness ==
    /\ last.op = "ValidateToken" /\ last.valid /\ now > 0
    /\ \E p \in profiles : p.id = last.userID /\ p.deleted /\ p.phone = "555"
    /\ \E m \in minted : m.token # last.token /\ m.token.claims.exp > last.token.claims.exp

----------------------------------------------------------------------------
(* Properties of concurrent registration, checked under SpecRace *)

\* the callers whose Register call was for this email
CallsFor(email) == {p \in Callers : inflight[p].pc # "idle" /\ inflight[p].email = email}

\* C11 -- concurrent double registration: when two or more Register calls
\* with the same email have run, in any interleaving and with the store
\* answering, exactly one has succeeded and every other one has received
\* "email already registered".
C11ExactlyOneSucceeds ==
    \A e \in {in[1] : in \in RaceInputs} :
        LET calls == CallsFor(e)
        IN (/\ Cardinality(calls) >= 2
            /\ \A p \in calls : inflight[p].regDone /\ inflight[p].regErr # DbError) =>
               /\ Cardinality({p \in calls : inflight[p].regErr = ""}) = 1
               /\ \A p \in calls : inflight[p].regErr \in {"", "email already registered"}

\* C12 -- in every reachable state of the Credential Store, also under
\* concurrent registrations, there is at most one Account per email and no
\* two Accounts share an id.
C12OneAccountPerEmail ==
    \A a, b \in accounts : (a.email = b.email \/ a.id = b.id) => a = b

\* two calls for one email both passed the lookup, and the INSERT of the
\* second was refused
C12Witness ==
    /\ Cardinality(accounts) = 1
    /\ \E p \in Callers : /\ inflight[p].regDone /\ inflight[p].hash # <<>>
                          /\ inflight[p].regErr \notin {"", DbError}

\* C16 -- registration ordering: within one Register request the mirror
\* CreateUser call is issued only once the Account of the request is in the
\* Credential Store, at most once, and never when the credential half failed;
\* the Profile Store changes only by such a call.
C16MirrorAfterCommit ==
    [][/\ \A p \in Callers :
          LET c == inflight[p]
              d == inflight'[p]
          IN /\ Len(d.mirror) <= 1
             /\ Len(d.mirror) > Len(c.mirror) =>
                    /\ c.regDone /\ c.regErr = ""
                    /\ \E a \in accounts : /\ a.id = d.mirror[1].UserId
                                           /\ a.email = d.mirror[1].Email
                                           /\ a.name = d.mirror[1].Name
                                           /\ a.email = c.email
             /\ (d.regDone /\ d.regErr # "") => d.mirror = <<>>
             /\ (d.pc = "done" /\ d.mirror = <<>>) => d.regErr # ""
       /\ profiles' # profiles => \E q \in Callers : Len(inflight'[q].mirror) > Len(inflight[q].mirror)
      ]_vars

\* one call has made its mirror call and succeeded, another one for the same
\* email was refused by the INSERT and made none
C16Witness ==
    \E p, q \in Callers :
        /\ inflight[p].pc = "done" /\ inflight[p].err = "" /\ Len(inflight[p].mirror) = 1
        /\ inflight[q].pc = "done" /\ inflight[q].email = inflight[p].email
        /\ inflight[q].hash # <<>> /\ inflight[q].regErr # "" /\ inflight[q].mirror = <<>>

----------------------------------------------------------------------------
(* Properties of the stored credentials, checked under Spec *)

\* the plaintext passwords that callers present
Plaintexts == {in[2] : in \in RegisterInputs} \cup LoginPasswords

\* C13 -- every stored Account holds the bcrypt hash of its registration
\* password, which that password verifies against, and never the plaintext;
\* no other column of either store holds a plaintext password, and none
\* appears in what Register, Login or ValidateToken answer.
C13HashedPassword ==
    /\ \A a \in accounts :
           /\ Len(a.password) = 4 /\ a.password[1] = "$2a$" /\ a.password[2] = BcryptDefaultCost
           /\ {a.id, a.email, a.name} \cap Plaintexts = {}
    /\ \A r \in registered :
           \E a \in accounts : a.id = r.id /\ CompareHashAndPassword(a.password, r.password) = ""
    /\ \A p \in profiles : {p.id, p.email, p.name, p.phone} \cap Plaintexts = {}
    /\ last.op \in {"Register", "Login", "ValidateToken"} =>
           /\ {last.userID, last.err, last.token.claims.user_id.v} \cap Plaintexts = {}
           /\ \A i \in 1..Len(last.mirror) :
                  {last.mirror[i].UserId, last.mirror[i].Email, last.mirror[i].Name,
                   last.mirror[i].Phone} \cap Plaintexts = {}

\* two Accounts registered with the same password hold different hashes, and
\* a Login with that password has just succeeded
C13Witness ==
    /\ last.op = "Login" /\ last.err = ""
    /\ \E a, b \in accounts :
           /\ a.id # b.id /\ a.password # b.password
           /\ CompareHashAndPassword(a.password, last.password) = ""
           /\ CompareHashAndPassword(b.password, last.password) = ""

----------------------------------------------------------------------------
(* Properties of registration and its mirror, checked under SpecMirror *)

\* a Register request has just been answered: at the auth-service RPC, or at
\* the gateway's /auth/register
RegisterAnswered ==
    \/ last'.op = "Register"
    \/ last'.op = "http" /\ last'.route = "POST /api/v1/auth/register"

RegisterRefused ==
    IF last'.op = "Register" THEN last'.err # "" /\ last'.userID = ""
    ELSE last'.status \notin {200, 201} /\ last'.userID = ""

\* C14 -- Register with an empty email, an empty password or an empty name
\* fails with a validation error and creates no Account, at the gateway's
\* HTTP handler and at the auth-service Register RPC alike.
C14EmptyFieldsRefused ==
    [][(Idle /\ RegisterAnswered
        /\ (last'.email = "" \/ last'.password = "" \/ last'.name = "")) =>
           /\ RegisterRefused
           /\ last'.op = "http" => last'.status = 400
           /\ accounts' = accounts
      ]_vars

\* C15 -- mirror partial failure: when a Register RPC has issued the mirror
\* CreateUser call and that call left no Profile, Register reports failure and
\* returns no id, the Account it committed stays in the Credential Store, the
\* mirror call was made once and nothing else was changed.
C15MirrorFailure ==
    [][(Idle /\ last'.op = "Register" /\ last'.mirror # <<>>
        /\ ~\E p \in profiles' : p.id = last'.mirror[1].UserId) =>
           /\ last'.err # "" /\ last'.userID = ""
           /\ Len(last'.mirror) = 1
           /\ accounts \subseteq accounts'
           /\ \E a \in accounts' \ accounts : /\ a.id = last'.mirror[1].UserId
                                              /\ a.email = last'.email
                                              /\ accounts' = accounts \cup {a}
           /\ profiles' = profiles
           /\ registered' = registered
      ]_vars

\* a Register with well-formed fields failed after its Account was committed
C15Witness ==
    /\ last.op = "Register" /\ last.err # "" /\ Len(last.mirror) = 1
    /\ last.email # "" /\ last.name # "" /\ last.password # ""
    /\ \E a \in accounts : a.id = last.mirror[1].UserId /\ a.email = last.email
    /\ ~\E p \in profiles : p.email = last.email

Orphan(id) == (\E a \in accounts : a.id = id) /\ ~\E p \in profiles : p.id = id

\* C18 -- an Account without a Profile stays without one whatever is asked of
\* the gateway or the Register RPC afterwards: a Register with its email is
\* refused, a Login at the gateway with its credentials succeeds, and a GET of
\* its own profile under that token answers 404.
C18NeverRepaired ==
    [][/\ \A a \in accounts : Orphan(a.id) => Orphan(a.id)'
       /\ (Idle /\ RegisterAnswered
           /\ \E a \in accounts : Orphan(a.id) /\ a.email = last'.email) =>
              RegisterRefused /\ accounts' = accounts
       /\ (Idle /\ last'.op = "http" /\ last'.route = "POST /api/v1/auth/login"
           /\ Orphan(AccountOf(last'.email, last'.password))
           /\ last'.email # "" /\ last'.password # "") =>
              /\ last'.status = 200
              /\ last'.token.claims.user_id = StrClaim(AccountOf(last'.email, last'.password))
       /\ (Idle /\ last'.op = "http" /\ last'.route = "GET /api/v1/users/{id}" /\ last'.handled
           /\ Orphan(last'.pathId) /\ GetUserID(last'.gate.ctx) = last'.pathId) =>
              /\ last'.status = 404
              /\ last'.user = NoUserJSON
      ]_vars

\* the owner of an Account without a Profile asked for the profile, with a
\* token from a Login, and got 404
C18Witness ==
    /\ last.op = "http" /\ last.route = "GET /api/v1/users/{id}" /\ last.handled
    /\ last.status = 404 /\ Orphan(last.pathId)
    /\ GetUserID(last.gate.ctx) = last.pathId
    /\ \E m \in minted : m.account = last.pathId

----------------------------------------------------------------------------
(* Properties of what a rejected caller is told, checked under SpecGate *)

\* a Login at the gateway, with both fields given, was answered
LoginAnswered ==
    /\ last.op = "http" /\ last.route = "POST /api/v1/auth/login"
    /\ last.email # "" /\ last.password # ""

\* C19 -- a Login with an unknown email and a Login with a known email and a
\* wrong password get the same answer: the same error from the auth service,
\* and the same status and body from the gateway.
C19SameLoginFailure ==
    (LoginAnswered /\ (GetUserByEmail(last.email) = {} \/ AccountOf(last.email, last.password) = "")) =>
        /\ last.err = "invalid credentials"
        /\ last.status = 401
        /\ last.body = "Login failed: rpc error: code = Unknown desc = invalid credentials"
        /\ last.token = NoToken /\ last.userID = ""

\* a Login with a wrong password for an email that has an Account, while
\* another email that is asked about has none
C19Witness ==
    /\ LoginAnswered /\ last.status = 401
    /\ GetUserByEmail(last.email) # {}
    /\ GetUserByEmail("b@x") = {}

\* C20 -- every authentication failure returns the same generic message: the
\* body of a gate rejection is the one a request without Authorization header
\* gets, and the body of a rejected login is the one an unknown email gets,
\* whichever check failed.
C20GenericMessage ==
    /\ (last.op = "http" /\ last.gated /\ ~last.handled /\ last.status = 401) =>
           last.body = AuthMiddleware(<<>>, FALSE).body
    /\ (LoginAnswered /\ last.status = 401) =>
           last.body = GatewayLogin(JSON("nobody@x", "pw1", ""), FALSE, "none").body

----------------------------------------------------------------------------
(* Properties of the public routes under faults, checked under SpecOutage *)

\* C21 -- a login whose lookup in the Credential Store fails is answered with
\* a dependency error: the gateway's status is 5xx, not 401, and the auth
\* service's error is not "invalid credentials".
C21StoreErrorIsInternal ==
    (LoginAnswered /\ last.fault = "select") =>
        /\ last.status >= 500
        /\ last.err # "invalid credentials"

----------------------------------------------------------------------------
(* Properties of the login response, checked under SpecGate *)

\* C22 -- a login answered with 200 carries a token, and the user_id and
\* name of its body are the id and the name of the Account that logged in.
C22LoginResponse ==
    (LoginAnswered /\ last.status = 200) =>
        /\ last.token # NoToken
        /\ \E a \in GetUserByEmail(last.email) : last.userID = a.id /\ last.respName = a.name

----------------------------------------------------------------------------
(* Properties of the resource authorizer, checked under SpecGate *)

\* C23 -- the resource authorizer as a function of the identity A the gate
\* attached and the id B of the path: when A differs from B the handler
\* answers 403 and calls nothing; when B is A the authorizer yields B, the
\* answer is not 403 and every call of the handler is made for B.
C23Authorizer ==
    (last.op = "http" /\ last.gated /\ last.handled) =>
        LET A == GetUserID(last.gate.ctx)
            B == last.pathId
        IN /\ A # B => /\ authorizeUserAccess(B, last.gate.ctx).err # ""
                       /\ last.status = 403 /\ last.calls = <<>>
                       /\ last.user = NoUserJSON /\ last.addrs = {}
           /\ A = B => /\ authorizeUserAccess(B, last.gate.ctx) = [id |-> B, err |-> ""]
                       /\ last.status # 403
                       /\ \A i \in 1..Len(last.calls) : last.calls[i].UserId = B

\* an identity that has a Profile of its own asked for the live Profile of
\* another id and was refused
C23Witness ==
    /\ last.op = "http" /\ last.gated /\ last.handled
    /\ last.route = "GET /api/v1/users/{id}" /\ last.status = 403
    /\ GetUserID(last.gate.ctx) # last.pathId
    /\ \E p \in profiles : p.id = GetUserID(last.gate.ctx) /\ ~p.deleted
    /\ \E p \in profiles : p.id = last.pathId /\ ~p.deleted

----------------------------------------------------------------------------
(* The end-to-end sequence of the test script, checked under SpecGate *)

\* a GET /api/v1/users/{id} was answered, no call of it having failed in
\* transport
GetAnswered ==
    /\ last.op = "http" /\ last.route = "GET /api/v1/users/{id}"
    /\ last.fault = "none"
    /\ \A i \in 1..Len(last.gate.vt) : last.gate.vt[i].err = ""

\* the ids of the accounts whose minted token the request bears
BearerAccounts == {m.account : m \in {m \in minted : last.header = Bearer(m.token)}}

----------------------------------------------------------------------------
(* Cancellation, checked under SpecCancel *)

\* C25 -- when an inbound request is cancelled or its deadline passes, every
\* store call and outbound call still running for it is abandoned: the worker
\* serving it eventually finishes, even if the dependency never answers.
C25CancellationPropagates ==
    \A p \in Callers : inflight[p].cancelled ~> inflight[p].pc = "done"

----------------------------------------------------------------------------
(* Frame of Login and Register on the Credential Store, checked under Spec *)

\* C26 -- a Login, whatever its outcome (success, unknown email, wrong
\* password, store error), leaves every Account as it was, last_login
\* included; a Register that succeeds adds exactly one Account, the one whose
\* id it returns, and changes no other Account.
C26LoginRegisterFrame ==
    [][/\ (Idle /\ last'.op = "Login") => accounts' = accounts
       /\ (Idle /\ last'.op = "Register" /\ last'.err = "") =>
              \E row \in accounts' :
                  /\ row \notin accounts
                  /\ accounts' = accounts \cup {row}
                  /\ row.id = last'.userID /\ row.email = last'.email
                  /\ \A a \in accounts : a.id # row.id
      ]_vars

\* a Login succeeded, and afterwards the Account still has no last_login,
\* beside another Account
C26Witness ==
    /\ last.op = "Login" /\ last.err = "" /\ last.token # NoToken
    /\ \E a \in accounts : a.email = last.email /\ a.last_login = ZeroTime
    /\ Cardinality(accounts) = 2

----------------------------------------------------------------------------
(* Properties of the user service, checked under SpecUser *)

\* C27 -- soft delete: a DeleteUser(id) that succeeds leaves the Profile of
\* id deleted; every later GetUser(id) and UpdateUser(id) fails, with "user
\* not found" when the store answers, and changes nothing; and no operation
\* makes a deleted Profile visible again: it stays as it is, deleted.
C27SoftDelete ==
    [][/\ (Idle /\ last'.op = "DeleteUser" /\ last'.err = "") =>
              \A p \in profiles' : p.id = last'.userID => p.deleted
       /\ (Idle /\ last'.op \in {"GetUser", "UpdateUser"}
           /\ \E p \in profiles : p.id = last'.userID /\ p.deleted) =>
              /\ last'.err # "" /\ last'.user = NoUserJSON
              /\ last'.fault = "none" => last'.err = "user not found"
              /\ profiles' = profiles
       /\ \A p \in profiles : p.deleted =>
              /\ p \in profiles'
              /\ \A q \in profiles' : q.id = p.id => q = p
      ]_vars

\* an UpdateUser of a Profile that was deleted before was refused
C27Witness ==
    /\ last.op = "UpdateUser" /\ last.err = "user not found"
    /\ \E p \in profiles : p.id = last.userID /\ p.deleted
    /\ \E p \in profiles : p.id # last.userID /\ ~p.deleted

\* C28 -- an UpdateUser(id, name, phone) that succeeds on a live Profile makes
\* a following GetUser(id) return exactly that name and phone, with the id
\* and email the Profile had; every other Profile, every address and the
\* Credential Store stay as they were.
C28UpdateFrame ==
    [][(Idle /\ last'.op = "UpdateUser" /\ last'.err = "") =>
          \E p \in profiles :
              /\ p.id = last'.userID /\ ~p.deleted
              /\ LET q == [p EXCEPT !.name = last'.name, !.phone = last'.phone]
                 IN /\ GetUser(p.id, "none")' = [User |-> q, Error |-> ""]
                    /\ last'.user = UserJSON(q)
                    /\ profiles' = (profiles \ {p}) \cup {q}
              /\ addresses' = addresses
              /\ accounts' = accounts
      ]_vars

\* a Profile that has an address was updated beside another live Profile
C28Witness ==
    /\ last.op = "UpdateUser" /\ last.err = "" /\ last.name = "Bo" /\ last.phone = "555"
    /\ GetUser(last.userID, "none").User.name = "Bo"
    /\ \E p \in profiles : p.id # last.userID /\ ~p.deleted /\ p.name # "Bo"
    /\ \E a \in addresses : a.user_id = last.userID

\* C29 -- GetAddresses(u) returns exactly the addresses that were added with
\* a successful AddAddress for user id u: a successful AddAddress(u, fields)
\* stores one new address of u with the fields given and returns it; stored
\* addresses never change or disappear, and nothing else stores one; and
\* GetAddresses(u) returns the stored addresses of u, all of them and no
\* address of another user id.
C29AddressesOfUser ==
    [][/\ (Idle /\ last'.op = "AddAddress" /\ last'.err = "") =>
              \E row \in addresses' :
                  /\ row \notin addresses /\ \A a \in addresses : a.id # row.id
                  /\ addresses' = addresses \cup {row}
                  /\ row = [last'.address EXCEPT !.id = row.id, !.user_id = last'.userID]
                  /\ last'.addrs = {row}
       /\ ~(Idle /\ last'.op = "AddAddress" /\ last'.err = "") => addresses' = addresses
       /\ (Idle /\ last'.op = "GetAddresses" /\ last'.err = "") =>
              /\ \A a \in last'.addrs : a \in addresses /\ a.user_id = last'.userID
              /\ \A a \in addresses : a.user_id = last'.userID => a \in last'.addrs
      ]_vars

\* GetAddresses returned the one address of a user while another user has
\* an address too
C29Witness ==
    /\ last.op = "GetAddresses" /\ last.err = ""
    /\ Cardinality(last.addrs) = 1
    /\ \E a \in addresses : a.user_id # last.userID

----------------------------------------------------------------------------
(* The ValidateToken RPC as the gate sees it, checked under Spec *)

\* C30 -- the ValidateToken RPC returns no RPC error, whatever the token: a
\* token that fails verification is answered with Valid = false, an empty
\* UserId and a non-empty Error; a token that passes with Valid = true, its
\* subject as UserId and an empty Error; so a gate that reaches the verifier
\* does not answer 500 for it.
C30ValidateTokenNoRpcError ==
    last.op = "ValidateToken" =>
        /\ last.rpcErr = ""
        /\ ValidateToken(last.token).err # "" => ~last.valid /\ last.userID = "" /\ last.err # ""
        /\ ValidateToken(last.token).err = "" =>
               /\ last.valid /\ last.err = ""
               /\ last.token.claims.user_id = StrClaim(last.userID)
        /\ AuthMiddleware(Bearer(last.token), FALSE).status # 500
        /\ AuthMiddleware(Bearer(last.token), TRUE).status = 500

\* an expired token of this issuer was answered with Valid = false and the
\* library's error
C30Witness ==
    /\ last.op = "ValidateToken" /\ ~last.valid /\ last.err # "" /\ last.rpcErr = ""
    /\ last.token \in MintedTokens
    /\ \E m \in minted : m.token = last.token /\ m.secret = jwtSecret

----------------------------------------------------------------------------
(* The gate's outcome per request, checked under SpecGate *)

\* C31 -- per request the gate reaches exactly one terminal outcome: it either
\* writes one error response and does not call the next handler, or calls the
\* next handler and writes nothing itself; it calls ValidateToken at most
\* once, and not at all when the Authorization header is missing, does not
\* start with "Bearer ", or holds no token after the prefix.
C31OneOutcome ==
    (last.op = "http" /\ last.gated) =>
        LET g == last.gate
            h == last.header
            noToken == h = <<>> \/ ~HasPrefix(h, bearerPrefix)
                       \/ TrimSpace(TrimPrefix(h, bearerPrefix)) = <<>>
        IN /\ g.next <=> g.status = 0
           /\ g.next <=> last.handled
           /\ ~g.next => last.status = g.status /\ last.body = g.body /\ last.calls = <<>>
           /\ Len(g.vt) <= 1
           /\ noToken <=> g.vt = <<>>

\* a request whose header holds only the prefix and spaces was refused
\* without a ValidateToken call
C31Witness ==
    /\ last.op = "http" /\ last.gated /\ ~last.handled
    /\ last.header = <<Word("Bearer"), SP, SP>>
    /\ last.gate.vt = <<>> /\ last.gate.status = 401

----------------------------------------------------------------------------
(* Immutability of Accounts, checked under SpecMirror *)

\* C32 -- an Account is never modified or removed once it is created: after
\* every operation (Register with or without a failing mirror call, Login,
\* ValidateToken behind the gate, the Profile's update and delete, AddAddress)
\* each Account that existed is still there with the same id, email, password
\* hash and name, and only a Register adds one.
C32AccountImmutable ==
    [][/\ \A a \in accounts :
              /\ \E b \in accounts' : b.id = a.id /\ b.email = a.email
                                      /\ b.password = a.password /\ b.name = a.name
              /\ \A b \in accounts' : (b.id = a.id \/ b.email = a.email) => b = a
       /\ accounts' # accounts =>
              \/ last'.op = "Register"
              \/ last'.op = "http" /\ last'.route = "POST /api/v1/auth/register"
      ]_vars

\* the Profile of an Account was renamed through the gateway, and the
\* Account kept its name
C32Witness ==
    /\ last.op = "http" /\ last.route = "PUT /api/v1/users/{id}" /\ last.status = 200
    /\ \E a \in accounts : \E p \in profiles : a.id = last.pathId /\ p.id = a.id /\ p.name # a.name

\* C33 -- every stored Address has a non-empty user id, which is the id of
\* exactly one row of the Profile Store; an AddAddress with an empty user id,
\* street, city, postal code or country fails and stores nothing; and an
\* AddAddress changes no Profile and no address that was stored before.
C33AddressBelongsToProfile ==
    [][/\ \A a \in addresses' :
              /\ a.user_id # ""
              /\ Cardinality({p \in profiles' : p.id = a.user_id}) = 1
       /\ (Idle /\ last'.op = "AddAddress") =>
              /\ (last'.userID = "" \/ last'.address.street = "" \/ last'.address.city = ""
                  \/ last'.address.postal_code = "" \/ last'.address.country = "") =>
                     last'.err # "" /\ addresses' = addresses
              /\ profiles' = profiles
              /\ \A a \in addresses : a \in addresses'
              /\ \A a \in addresses' \ addresses : a.user_id = last'.userID
      ]_vars

\* an address was refused for a user id that has no Profile row, while
\* another user has one stored
C33Witness ==
    /\ last.op = "AddAddress" /\ last.err # "" /\ last.fault = "none"
    /\ last.userID = "no-such-user"
    /\ last.address.street # "" /\ last.address.city # ""
    /\ last.address.postal_code # "" /\ last.address.country # ""
    /\ addresses # {}

----------------------------------------------------------------------------
(* UpdateUser against a concurrent DeleteUser, checked under SpecUpdateRace *)

\* C34 -- UpdateUser never modifies a soft-deleted Profile, in any
\* interleaving with a concurrent DeleteUser of the same id: the UPDATE of an
\* UpdateUser that reports success is made on a Profile that is live when it
\* is made, and a soft-deleted Profile stays as it is.
C34UpdateWritesLive ==
    [][/\ \A p \in Callers :
              (inflight[p].pc = "write" /\ inflight'[p].pc = "done" /\ inflight'[p].err = "") =>
                  \E q \in profiles : q.id = inflight[p].userID /\ ~q.deleted
       /\ \A q \in profiles : q.deleted => q \in profiles'
      ]_vars

----------------------------------------------------------------------------
(* Further properties of the user service, checked under SpecUser *)

\* C35 -- every live Profile has a non-empty email and a non-empty name,
\* after any sequence of CreateUser and UpdateUser operations, an update that
\* supplies only a phone included.
C35LiveProfileNamed ==
    \A p \in profiles : ~p.deleted => p.email # "" /\ p.name # ""

\* the Profiles a GetUser can return
LiveProfiles == {p \in profiles : ~p.deleted}

\* C36 -- DeleteUser is idempotent on the visible state: for an id that has
\* no live Profile, never created or soft-deleted already, it reports success
\* and leaves the live Profiles, the addresses and the Credential Store as
\* they were; a DeleteUser that succeeds leaves no live Profile of its id, so
\* a second call after it is of that kind.
C36DeleteIdempotent ==
    [][(Idle /\ last'.op = "DeleteUser" /\ last'.fault = "none" /\ last'.userID # "") =>
          /\ last'.err = "" /\ last'.valid
          /\ \A p \in LiveProfiles' : p.id # last'.userID
          /\ {p \in LiveProfiles : p.id # last'.userID} = LiveProfiles'
          /\ (\A p \in LiveProfiles : p.id # last'.userID) =>
                 /\ LiveProfiles' = LiveProfiles
                 /\ {p.id : p \in profiles'} = {p.id : p \in profiles}
          /\ addresses' = addresses
          /\ accounts' = accounts
      ]_vars

\* DeleteUser reported success for an id that never had a Profile, beside a
\* live Profile and a soft-deleted one
C36Witness ==
    /\ last.op = "DeleteUser" /\ last.err = "" /\ last.valid
    /\ last.userID = "no-such-user"
    /\ LiveProfiles # {} /\ LiveProfiles # profiles

----------------------------------------------------------------------------
(* The gateway's client set, checked under SpecClients *)

\* the client sets a GRPCClients value can be
ClientSets == [authConn : {"nil", "auth"}, userConn : {"nil", "user"}]

\* C37 -- NewGRPCClients either returns a client set with both connections
\* open, or returns an error and leaves no connection open, the auth
\* connection having been closed when the user connection failed; Close
\* closes every connection of the client set that is open, and tolerates a
\* client set in which a connection is missing.
C37ClientSet ==
    /\ conns.phase = "up" =>
           /\ conns.err = "" /\ conns.clients = [authConn |-> "auth", userConn |-> "user"]
           /\ conns.open = {"auth", "user"}
    /\ conns.phase = "failed" =>
           /\ conns.err # "" /\ conns.clients = NoClients
           /\ conns.open = {}
           /\ conns.err = "failed to connect to user service: dial error" => conns.closed = {"auth"}
    /\ conns.phase = "closed" =>
           /\ conns.open = {} /\ ~conns.panic
           /\ conns.closed = {conns.clients.authConn, conns.clients.userConn} \ {"nil"}
    /\ \A c \in ClientSets :
           LET r == Close(c, conns.open)
           IN /\ ~r.panic
              /\ r.open = conns.open \ {c.authConn, c.userConn}
              /\ r.closed = {c.authConn, c.userConn} \ {"nil"}

\* the user connection failed after the auth connection was open: the auth
\* connection was closed and none is left
C37Witness ==
    /\ conns.phase = "failed" /\ conns.closed = {"auth"} /\ conns.open = {}
    /\ conns.err = "failed to connect to user service: dial error"

====
